---- MODULE Spec2Model ----
(***************************************************************************)
(* Model of the media core of the Cadence video agent:                     *)
(*   tools/view_tool.py            view_video_segment_impl (sample_segment)*)
(*   tools/save_video_segment_tool.py  save_video_segment_impl (save)      *)
(*   utils/ffmpeg_utils.py         get_video_metadata, extract_frames,     *)
(*                                 extract_audio_segment,                  *)
(*                                 trim_and_save_segment                   *)
(*                                                                         *)
(* Conventions.                                                            *)
(*  - A Python str is a sequence of one-character strings.                 *)
(*  - Optional[T] is a sequence of length <= 1: <<>> is None, <<v>> is v.  *)
(*  - A second count is a Python float, held exactly (see below).          *)
(*  - A source file name is a sequence of tokens (stem, extension); an     *)
(*    output file name is a str, as the code looks at its characters.      *)
(*  - The engine (ffprobe / ffmpeg) is the environment: its exit status    *)
(*    and the files it writes are chosen nondeterministically.             *)
(***************************************************************************)
EXTENDS Integers, Sequences, FiniteSets, TLC

(***************************************************************************)
(* Bounds of the model.                                                    *)
(***************************************************************************)
\* largest frame count a request asks for
MaxFrames == 3
\* largest frame-file index the decode engine may leave in the temp dir
MaxIndex == 2

(***************************************************************************)
(* Optional values.                                                        *)
(***************************************************************************)
None == <<>>

Some(v) == <<v>>

IsNone(o) == Len(o) = 0

(***************************************************************************)
(* Characters.  A printable ASCII character is written by itself, a        *)
(* control character by its escape ("\t", "\n", "\f", "\r"), any other     *)
(* character by the name of its code point ("U+0661").                     *)
(***************************************************************************)
\* chr(32) .. chr(126); the grave accent chr(96) goes by its name
AsciiPrintable ==
    <<" ", "!", "\"", "#", "$", "%", "&", "'", "(", ")", "*", "+", ",",
      "-", ".", "/", "0", "1", "2", "3", "4", "5", "6", "7", "8", "9", ":",
      ";", "<", "=", ">", "?", "@", "A", "B", "C", "D", "E", "F", "G", "H",
      "I", "J", "K", "L", "M", "N", "O", "P", "Q", "R", "S", "T", "U", "V",
      "W", "X", "Y", "Z", "[", "\\", "]", "^", "_", "U+0060", "a", "b",
      "c", "d", "e", "f", "g", "h", "i", "j", "k", "l", "m", "n", "o", "p", "q",
      "r", "s", "t", "u", "v", "w", "x", "y", "z", "{", "|", "}", "~">>

\* the other characters of the model, each with its code point
OtherCodePoints ==
    {<<"\t", 9>>, <<"\n", 10>>, <<"U+000B", 11>>, <<"\f", 12>>, <<"\r", 13>>,
     <<"U+001C", 28>>, <<"U+0085", 133>>, <<"U+00A0", 160>>,
     <<"U+0130", 304>>, <<"U+0307", 775>>, <<"U+0661", 1633>>,
     <<"U+0663", 1635>>, <<"U+09E9", 2537>>, <<"U+2003", 8195>>,
     <<"U+212A", 8490>>, <<"U+FF11", 65297>>, <<"U+FF15", 65301>>}

Characters ==
    {AsciiPrintable[i] : i \in DOMAIN AsciiPrintable}
        \cup {p[1] : p \in OtherCodePoints}

CodePointOf ==
    [c \in Characters |->
        IF \E p \in OtherCodePoints : p[1] = c
        THEN (CHOOSE p \in OtherCodePoints : p[1] = c)[2]
        ELSE 31 + CHOOSE i \in DOMAIN AsciiPrintable : AsciiPrintable[i] = c]

\* ord(c)
CodePoint(c) == CodePointOf[c]

\* chr(n)
Character(n) == CHOOSE c \in Characters : CodePointOf[c] = n

(***************************************************************************)
(* Python str.split(sep) and int(str).                                     *)
(***************************************************************************)
\* c * n: n times the character c
Repeated(c, n) == [i \in 1..n |-> c]

\* the pieces of s from index i on, P the positions of the separators left
RECURSIVE SplitFrom(_, _, _)
SplitPiece(s, P, i, p) ==
    <<SubSeq(s, i, p - 1)>> \o SplitFrom(s, P \ {p}, p + 1)

SplitFrom(s, P, i) ==
    IF P = {} THEN <<SubSeq(s, i, Len(s))>>
    ELSE SplitPiece(s, P, i, CHOOSE p \in P : \A q \in P : p <= q)

Split(s, sep) == SplitFrom(s, {i \in DOMAIN s : s[i] = sep}, 1)

\* the code points of the digits zero of the Unicode decimal digits
\* (category Nd): the digits 0 .. 9 of each script are consecutive
DecimalZeros ==
    {48, 1632, 1776, 1984, 2406, 2534, 2662, 2790, 2918, 3046, 3174, 3302,
     3430, 3558, 3664, 3792, 3872, 4160, 4240, 6112, 6160, 6470, 6608, 6784,
     6800, 6992, 7088, 7232, 7248, 42528, 43216, 43264, 43472, 43504, 43600,
     44016, 65296, 66720, 68912, 69734, 69872, 69942, 70096, 70384, 70736,
     70864, 71248, 71360, 71472, 71904, 72016, 72784, 73040, 73120, 92768,
     92864, 93008, 120782, 120792, 120802, 120812, 120822, 123200, 123632,
     125264, 130032}

\* the digit value of a character, -1 when it is no decimal digit
DigitValueOf ==
    [c \in Characters |->
        IF \E z \in DecimalZeros : CodePointOf[c] \in z..(z + 9)
        THEN CodePointOf[c]
                - (CHOOSE z \in DecimalZeros : CodePointOf[c] \in z..(z + 9))
        ELSE 0 - 1]

\* the characters int() reads as a digit
Digits == {c \in Characters : DigitValueOf[c] >= 0}

DigitVal(c) == DigitValueOf[c]

\* the code points int() skips around a numeral: ASCII \t \n \v \f \r and
\* the space, and the non-ASCII white space (U+001C .. U+001F, which
\* str.isspace() accepts, are not skipped)
IntWhitespaceCodePoints ==
    {9, 10, 11, 12, 13, 32, 133, 160, 5760} \cup (8192..8202)
        \cup {8232, 8233, 8239, 8287, 12288}

IntWhitespace ==
    {c \in Characters : CodePointOf[c] \in IntWhitespaceCodePoints}

RECURSIVE IntSkipLeft(_)
IntSkipLeft(s) ==
    IF Len(s) > 0 /\ s[1] \in IntWhitespace THEN IntSkipLeft(Tail(s)) ELSE s

RECURSIVE IntSkipRight(_)
IntSkipRight(s) ==
    IF Len(s) > 0 /\ s[Len(s)] \in IntWhitespace
    THEN IntSkipRight(SubSeq(s, 1, Len(s) - 1))
    ELSE s

\* the numeral int() reads: the argument without the white space around it
IntNumeral(s) == IntSkipRight(IntSkipLeft(s))

\* sys.get_int_max_str_digits(): int() raises ValueError on a decimal
\* numeral of more digits, the leading zeros counted, the underscores not
IntMaxStrDigits == 4300

\* the number of digits of a numeral
SignificantDigits(d) == Cardinality({i \in DOMAIN d : d[i] \in Digits})

\* digits with single underscores between them, as int() accepts, and no
\* more of them than int() converts
WellFormedDigits(d) ==
    /\ Len(d) > 0
    /\ \A i \in 1..Len(d) : d[i] \in Digits \cup {"_"}
    /\ d[1] # "_"
    /\ d[Len(d)] # "_"
    /\ \A i \in 1..(Len(d) - 1) : ~(d[i] = "_" /\ d[i + 1] = "_")
    /\ SignificantDigits(d) <= IntMaxStrDigits

\* the positions of d that hold a digit other than zero
NonZeroPositions(d) ==
    {i \in DOMAIN d : d[i] \in Digits /\ DigitVal(d[i]) # 0}

\* the numeral from its first digit that is not zero
DropLeadingZeros(d) ==
    IF NonZeroPositions(d) = {} THEN <<>>
    ELSE SubSeq(d, CHOOSE i \in NonZeroPositions(d) :
                       \A j \in NonZeroPositions(d) : i <= j, Len(d))

RECURSIVE DigitsValue(_, _)
DigitsValue(d, acc) ==
    IF Len(d) = 0 THEN acc
    ELSE IF d[1] = "_" THEN DigitsValue(Tail(d), acc)
    ELSE DigitsValue(Tail(d), acc * 10 + DigitVal(d[1]))

\* the value of well-formed digits; the leading zeros add nothing
ValueOfDigits(d) == DigitsValue(DropLeadingZeros(d), 0)

\* the value of a numeral: optional sign, then digits
SignedValue(t, signed) ==
    IF ~WellFormedDigits(IF signed THEN Tail(t) ELSE t) THEN None
    ELSE IF signed /\ t[1] = "-" THEN Some(0 - ValueOfDigits(Tail(t)))
    ELSE IF signed THEN Some(ValueOfDigits(Tail(t)))
    ELSE Some(ValueOfDigits(t))

IntOfNumeral(t) == SignedValue(t, Len(t) > 0 /\ t[1] \in {"+", "-"})

\* int(x): None stands for ValueError
PyInt(x) == IntOfNumeral(IntNumeral(x))

(***************************************************************************)
(* Python floats (IEEE 754 binary64).  The floats the program computes are *)
(* ints below 2^31 in magnitude, quotients n / 1000.0 of such ints (0, or  *)
(* at least 0.001 in magnitude), and sums and differences of these: every  *)
(* one is a multiple of 2^-63 below 2^42 in magnitude.  A float is held    *)
(* exactly, as                                                             *)
(*     [neg, mag]     value = (-1)^neg * mag * 2^-63,                      *)
(* mag a natural number written as Limbs digits of base 2^LimbBits, the    *)
(* least significant first.  An operation computes the exact result and    *)
(* rounds it to MantissaBits significant bits, ties to even.               *)
(***************************************************************************)
LimbBits == 21

Limbs == 5

\* sys.float_info.mant_dig
MantissaBits == 53

Limb == 2^LimbBits

MagZero == <<0, 0, 0, 0, 0>>

\* n * 2^63 for a natural number n < 2^31: 63 = 3 * LimbBits
MagOfInt(n) == <<0, 0, 0, n % Limb, n \div Limb>>

RECURSIVE MagAddFrom(_, _, _, _)
MagAddFrom(a, b, i, carry) ==
    IF i > Limbs THEN <<>>
    ELSE <<(a[i] + b[i] + carry) % Limb>>
            \o MagAddFrom(a, b, i + 1, (a[i] + b[i] + carry) \div Limb)

\* a + b
MagAdd(a, b) == MagAddFrom(a, b, 1, 0)

RECURSIVE MagSubFrom(_, _, _, _)
MagSubFrom(a, b, i, borrow) ==
    IF i > Limbs THEN <<>>
    ELSE <<(a[i] - b[i] - borrow + Limb) % Limb>>
            \o MagSubFrom(a, b, i + 1,
                          IF a[i] - b[i] - borrow < 0 THEN 1 ELSE 0)

\* a - b, for a >= b
MagSub(a, b) == MagSubFrom(a, b, 1, 0)

RECURSIVE MagLessFrom(_, _, _)
MagLessFrom(a, b, i) ==
    IF i = 0 THEN FALSE
    ELSE IF a[i] # b[i] THEN a[i] < b[i]
    ELSE MagLessFrom(a, b, i - 1)

\* a < b
MagLess(a, b) == MagLessFrom(a, b, Limbs)

\* the number of bits of a digit n
BitsOfLimb(n) ==
    IF n = 0 THEN 0
    ELSE CHOOSE k \in 1..LimbBits : 2^(k - 1) <= n /\ n < 2^k

\* the index of the most significant digit that is not 0
TopLimb(m) ==
    CHOOSE i \in 1..Limbs : m[i] # 0 /\ \A j \in (i + 1)..Limbs : m[j] = 0

\* the number of bits of m
BitLength(m) ==
    IF m = MagZero THEN 0
    ELSE LimbBits * (TopLimb(m) - 1) + BitsOfLimb(m[TopLimb(m)])

\* the digit i of 2^s
PowerOfTwoLimb(s, i) ==
    IF i - 1 = s \div LimbBits THEN 2^(s % LimbBits) ELSE 0

\* 2^s
MagPowerOfTwo(s) ==
    <<PowerOfTwoLimb(s, 1), PowerOfTwoLimb(s, 2), PowerOfTwoLimb(s, 3),
      PowerOfTwoLimb(s, 4), PowerOfTwoLimb(s, 5)>>

\* the digit i of m mod 2^s
LowBitsLimb(m, s, i) ==
    IF i - 1 < s \div LimbBits THEN m[i]
    ELSE IF i - 1 = s \div LimbBits THEN m[i] % 2^(s % LimbBits)
    ELSE 0

\* m mod 2^s
MagLowBits(m, s) ==
    <<LowBitsLimb(m, s, 1), LowBitsLimb(m, s, 2), LowBitsLimb(m, s, 3),
      LowBitsLimb(m, s, 4), LowBitsLimb(m, s, 5)>>

\* the bit s of m
MagBit(m, s) == (m[s \div LimbBits + 1] \div 2^(s % LimbBits)) % 2

\* m without its s low bits `low`, rounded half to even; `sticky`: the
\* exact value lies above m
RoundAt(m, s, low, half, sticky) ==
    IF MagLess(half, low) \/ (low = half /\ (sticky \/ MagBit(m, s) = 1))
    THEN MagAdd(MagSub(m, low), MagPowerOfTwo(s))
    ELSE MagSub(m, low)

RoundDropping(m, s, sticky) ==
    IF s <= 0 THEN m
    ELSE RoundAt(m, s, MagLowBits(m, s), MagPowerOfTwo(s - 1), sticky)

\* the float nearest to the exact value
RoundToFloat(m, sticky) ==
    RoundDropping(m, BitLength(m) - MantissaBits, sticky)

\* long division of m by d <= 1000, from digit i down, r the remainder so
\* far: the remainder, then the digits of the quotient
RECURSIVE MagDivFrom(_, _, _, _)
MagDivFrom(m, d, i, r) ==
    IF i = 0 THEN <<r>>
    ELSE Append(MagDivFrom(m, d, i - 1, (r * Limb + m[i]) % d),
                (r * Limb + m[i]) \div d)

\* 0.0 is never negative here: no operation of the program yields -0.0
Float(neg, mag) == [neg |-> neg /\ mag # MagZero, mag |-> mag]

\* float(n) of an int n
FloatOfInt(n) == Float(n < 0, MagOfInt(IF n < 0 THEN 0 - n ELSE n))

FloatZero == FloatOfInt(0)

FloatOfQuotient(neg, division) ==
    Float(neg, RoundToFloat(Tail(division), division[1] # 0))

\* n / d of an int n and the float d of an int in 1 .. 1000
FloatTrueDiv(n, d) ==
    FloatOfQuotient(n < 0,
                    MagDivFrom(MagOfInt(IF n < 0 THEN 0 - n ELSE n), d,
                               Limbs, 0))

\* -a
FloatNeg(a) == Float(~a.neg, a.mag)

\* a + b
FloatAdd(a, b) ==
    IF a.neg = b.neg THEN Float(a.neg, RoundToFloat(MagAdd(a.mag, b.mag), FALSE))
    ELSE IF MagLess(a.mag, b.mag)
    THEN Float(b.neg, RoundToFloat(MagSub(b.mag, a.mag), FALSE))
    ELSE Float(a.neg, RoundToFloat(MagSub(a.mag, b.mag), FALSE))

\* a - b
FloatSub(a, b) == FloatAdd(a, FloatNeg(b))

\* a < b
FloatLess(a, b) ==
    IF a.neg /\ ~b.neg THEN TRUE
    ELSE IF ~a.neg /\ b.neg THEN FALSE
    ELSE IF a.neg THEN MagLess(b.mag, a.mag)
    ELSE MagLess(a.mag, b.mag)

\* a <= b
FloatLessEq(a, b) == ~FloatLess(b, a)

\* the float of a decimal numeral of ms thousandths, as float("1.128")
\* gives it: the float nearest to ms / 1000
FloatOfMillis(ms) == FloatTrueDiv(ms, 1000)

(***************************************************************************)
(* parse_time_to_seconds (tools/view_tool.py; save_video_segment_tool      *)
(* imports this one).  The float returned, None on ValueError or on a      *)
(* segment count other than 1, 2, 3.                                       *)
(***************************************************************************)
Unsigned(t) == IF Len(t) > 0 /\ t[1] \in {"+", "-"} THEN Tail(t) ELSE t

\* int(x) succeeds
IsNumeral(x) == WellFormedDigits(Unsigned(IntNumeral(x)))

\* the strings handed to int(): the leading fields and the first two
\* '.'-pieces of the last one
IntArguments(parts, s_parts) ==
    {parts[i] : i \in 1..(Len(parts) - 1)}
        \cup {s_parts[i] : i \in DOMAIN s_parts \cap {1, 2}}

\* an int() of the try block raises ValueError
IntRaises(parts) ==
    \E x \in IntArguments(parts, Split(parts[Len(parts)], ".")) :
        ~IsNumeral(x)

\* s = int(s_parts[0]); ms = int(s_parts[1]) if len(s_parts) > 1 else 0
SecondsOfParts(s_parts) ==
    [s |-> PyInt(s_parts[1]),
     ms |-> IF Len(s_parts) > 1 THEN PyInt(s_parts[2]) ELSE Some(0)]

\* s_parts = x.split('.')
SecondsField(x) == SecondsOfParts(Split(x, "."))

\* a parser that reads the minutes of MM:SS and H:MM:SS as hundreds of seconds
TotalSeconds_DecimalMinutes(h, m, sf) ==
    IF IsNone(h) \/ IsNone(m) \/ IsNone(sf.s) \/ IsNone(sf.ms) THEN None
    ELSE Some(FloatAdd(FloatOfInt(h[1] * 3600 + m[1] * 100 + sf.s[1]),
                       FloatTrueDiv(sf.ms[1], 1000)))

\* float(h * 3600 + m * 60 + s + ms / 1000.0): the int h * 3600 + m * 60 + s
\* is exact, ms / 1000.0 and the sum are rounded
TotalSeconds(h, m, sf) ==
    IF IsNone(h) \/ IsNone(m) \/ IsNone(sf.s) \/ IsNone(sf.ms) THEN None
    ELSE Some(FloatAdd(FloatOfInt(h[1] * 3600 + m[1] * 60 + sf.s[1]),
                       FloatTrueDiv(sf.ms[1], 1000)))

ParseParts(parts) ==
    IF Len(parts) = 3 THEN
        TotalSeconds(PyInt(parts[1]), PyInt(parts[2]), SecondsField(parts[3]))
    ELSE IF Len(parts) = 2 THEN
        TotalSeconds(Some(0), PyInt(parts[1]), SecondsField(parts[2]))
    ELSE IF Len(parts) = 1 THEN
        TotalSeconds(Some(0), Some(0), SecondsField(parts[1]))
    ELSE None

\* parts = time_str.split(':'); `except ValueError` returns None, whichever
\* int() raised it
ParseOf(parts) == IF IntRaises(parts) THEN None ELSE ParseParts(parts)

parse_time_to_seconds(time_str) == ParseOf(Split(time_str, ":"))

(***************************************************************************)
(* The float range.  In `h * 3600 + m * 60 + s + ms / 1000.0` the sum      *)
(* h * 3600 + m * 60 + s is an int, exact whatever its size; ms / 1000.0   *)
(* converts the int ms to a float, and the addition of the quotient        *)
(* converts the sum.  The conversion of an int n raises OverflowError when *)
(* n rounds to 2^1024 or beyond, that is when |n| >= 2^1024 - 2^970, and   *)
(* it is reached only after every int() has succeeded.  The ints are       *)
(* compared with the limit in decimal, LimbDigits digits to a limb, the    *)
(* least significant limb first.                                           *)
(***************************************************************************)
LimbDigits == 4

LimbBase == 10000

\* 2^1024 - 2^970 (309 digits), the least int whose conversion to a float
\* raises OverflowError
FloatLimit ==
    <<7792, 7449, 9041, 177, 4288, 930, 9508, 5969, 7115, 4342, 1070, 3655,
      8444, 7416, 7190, 5292, 3647, 8349, 9860, 1481, 8429, 9622, 6695,
      5713, 9855, 7006, 7302, 4475, 3176, 7115, 5817, 5484, 2738, 3676,
      838, 7, 8902, 8190, 8206, 1505, 8867, 6574, 2630, 4040, 8519, 5547,
      4655, 9109, 2887, 1669, 2864, 6330, 709, 5872, 7977, 4901, 9466,
      4750, 9276, 9682, 444, 7898, 1737, 6936, 3782, 7100, 4132, 7993,
      4150, 5303, 7140, 7289, 793, 3158, 4862, 9313, 7976, 1>>

\* a time string of at most this many characters holds no numeral of more
\* digits, and 3661 * 10^304 is below the limit: nothing overflows
FloatSafeDigits == 304

\* an int as read by int(x): its digits, the most significant first, and
\* whether the numeral has a minus sign
DecimalOf(x) ==
    [digits |-> SelectSeq(Unsigned(IntNumeral(x)), LAMBDA c : c # "_"),
     neg |-> Len(IntNumeral(x)) > 0 /\ IntNumeral(x)[1] = "-"]

\* the int 0, which a field that is absent stands for
DecimalZero == [digits |-> <<>>, neg |-> FALSE]

\* the digit at position k of the digits d, 0 beyond their ends
DigitAt(d, k) == IF k >= 1 /\ k <= Len(d) THEN DigitVal(d[k]) ELSE 0

\* limb i of the number written by the digits d
DecimalLimb(d, i) ==
    DigitAt(d, Len(d) - LimbDigits * (i - 1))
        + 10 * DigitAt(d, Len(d) - LimbDigits * (i - 1) - 1)
        + 100 * DigitAt(d, Len(d) - LimbDigits * (i - 1) - 2)
        + 1000 * DigitAt(d, Len(d) - LimbDigits * (i - 1) - 3)

\* limb i of the int n, with the sign of n
SignedLimb(n, i) ==
    IF n.neg THEN 0 - DecimalLimb(n.digits, i) ELSE DecimalLimb(n.digits, i)

\* the number of limbs of the int n
LimbsOf(n) == (Len(n.digits) + LimbDigits - 1) \div LimbDigits

LimitLimb(i) == IF i <= Len(FloatLimit) THEN FloatLimit[i] ELSE 0

\* the carry out of the columns lo .. hi of col, the carry c coming in:
\* limb by limb, floor((col[i] + carry) / LimbBase) is carried on; the
\* carry out of the lower half of the columns goes into the upper half
RECURSIVE CarryOut(_, _, _, _)
CarryOut(col, lo, hi, c) ==
    IF lo = hi THEN (col[lo] + c) \div LimbBase
    ELSE CHOOSE out \in
             {CarryOut(col, (lo + hi) \div 2 + 1, hi, low) :
                 low \in {CarryOut(col, lo, (lo + hi) \div 2, c)}} : TRUE

\* sign * n >= 2^1024 - 2^970 for the int n with the columns col[1..len]:
\* the difference, its limbs brought into 0 .. LimbBase - 1, has no borrow
\* out of the top
AtLeastLimit(col, len, sign) ==
    CarryOut([i \in 1..len |-> sign * col[i] - LimitLimb(i)], 1, len, 0) >= 0

\* the conversion to a float of the int with the columns col[1..len] raises
BeyondFloat(col, len) ==
    AtLeastLimit(col, len, 1) \/ AtLeastLimit(col, len, 0 - 1)

\* a number of limbs that holds h * 3600 + m * 60 + s and the limit
SumLength(h, m, s) ==
    2 + (CHOOSE n \in {LimbsOf(h), LimbsOf(m), LimbsOf(s), Len(FloatLimit)} :
            /\ LimbsOf(h) <= n
            /\ LimbsOf(m) <= n
            /\ LimbsOf(s) <= n
            /\ Len(FloatLimit) <= n)

\* the int h * 3600 + m * 60 + s is beyond the float range
SumBeyondFloat(h, m, s) ==
    BeyondFloat([i \in 1..SumLength(h, m, s) |->
                    3600 * SignedLimb(h, i) + 60 * SignedLimb(m, i)
                        + SignedLimb(s, i)],
                SumLength(h, m, s))

\* the field before the last k fields of parts, 0 when there is none
FieldBefore(parts, k) ==
    IF Len(parts) > k THEN DecimalOf(parts[Len(parts) - k]) ELSE DecimalZero

OverflowIn(parts, s_parts) ==
    /\ Len(parts) \in 1..3
    /\ \A x \in IntArguments(parts, s_parts) : IsNumeral(x)
    /\ \/ SumBeyondFloat(FieldBefore(parts, 2), FieldBefore(parts, 1),
                          DecimalOf(s_parts[1]))
       \/ /\ Len(s_parts) > 1
          /\ SumBeyondFloat(DecimalZero, DecimalZero, DecimalOf(s_parts[2]))

OverflowInParts(parts) == OverflowIn(parts, Split(parts[Len(parts)], "."))

\* the arithmetic of the try block raises OverflowError
ParseOverflows(time_str) ==
    /\ Len(time_str) > FloatSafeDigits
    /\ OverflowInParts(Split(time_str, ":"))

\* how a call of a parser copy ends: by a return or by an exception
Returned(value) == [value |-> value, raised |-> ""]

Raised(exception) == [value |-> None, raised |-> exception]

\* an argument that is not a str (an int, say): no str is made of this token
NonString == <<"int">>

IsStr(x) == x # NonString

\* the exception that leaves a parser catching ValueError only, "" if none:
\* time_str.split (line 20) raises AttributeError on an argument that is not
\* a str, the arithmetic OverflowError
ParseRaises(time_str) ==
    IF ~IsStr(time_str) THEN "AttributeError"
    ELSE IF ParseOverflows(time_str) THEN "OverflowError"
    ELSE ""

\* tools/view_tool.py lines 15-44: `except ValueError` only
view_tool_parse_time_to_seconds(time_str) ==
    IF ParseRaises(time_str) # "" THEN Raised(ParseRaises(time_str))
    ELSE Returned(parse_time_to_seconds(time_str))

\* tools/save_video_segment_tool.py lines 12-43, the fallback copy:
\* `except ValueError` only
save_tool_parse_time_to_seconds(time_str) ==
    IF ParseRaises(time_str) # "" THEN Raised(ParseRaises(time_str))
    ELSE Returned(parse_time_to_seconds(time_str))

\* utils/ffmpeg_utils.py lines 18-55: isinstance guard (line 23) and a
\* final `except Exception` (line 53), both returning None
ffmpeg_utils_parse_time_to_seconds(time_str) ==
    IF ParseRaises(time_str) # "" THEN Returned(None)
    ELSE Returned(parse_time_to_seconds(time_str))

(***************************************************************************)
(* The video directory: the files a request can name and what the probe    *)
(* engine (ffprobe) reports for each.                                      *)
(***************************************************************************)
DummyVideo == <<"dummy_video", ".mp4">>

CorruptVideo == <<"corrupt", ".mp4">>

MissingVideo == <<"non_existent_video", ".mp4">>

\* a video of 1.118 s without an audio stream
ShortVideo == <<"short", ".mp4">>

FileNames ==
    {DummyVideo, CorruptVideo, MissingVideo, ShortVideo}

\* os.path.exists(full_video_path)
PathExists(f) == f \notin {MissingVideo, NonString}

\* ffmpeg.probe(video_path) succeeds
ProbeSucceeds(f) == f \in {DummyVideo, ShortVideo}

\* probe['format']['duration'], the numeral ffprobe prints, in thousandths
DurationMillis(f) ==
    CASE f = DummyVideo -> 10000
      [] f = ShortVideo -> 1118
      [] OTHER -> 0

\* line 82: float(duration_str)
ProbedDurationOf == [f \in FileNames |-> FloatOfMillis(DurationMillis(f))]

ProbedDuration(f) == IF f \in FileNames THEN ProbedDurationOf[f] ELSE FloatZero

\* an audio stream is present
ProbedHasAudio(f) == f = DummyVideo

\* video_stream.get('width', 0); 0 when there is no video stream
ProbedWidth(f) ==
    CASE f = DummyVideo -> 1280
      [] f = ShortVideo -> 640
      [] OTHER -> 0

(***************************************************************************)
(* Time strings a request may carry.                                       *)
(***************************************************************************)
T02 == <<"0", "0", ":", "0", "0", ":", "0", "2">>

T05 == <<"0", "0", ":", "0", "0", ":", "0", "5">>

T10 == <<"0", "0", ":", "0", "0", ":", "1", "0">>

T15 == <<"0", "0", ":", "0", "0", ":", "1", "5">>

\* 2 + 1 / 1000.0: less than 0.001 after T02 (2.001 - 2.0 < 0.001)
T02001 == <<"2", ".", "0", "0", "1">>

\* 5 + 1 / 1000.0: more than 0.001 after T05 (5.001 - 5.0 > 0.001)
T05001 == <<"5", ".", "1">>

\* 1 + 118 / 1000.0 = 1.1179999999999999
T1118 == <<"1", ".", "1", "1", "8">>

\* 0 + 1118 / 1000.0 = 1.118
T01118 == <<"0", ".", "1", "1", "1", "8">>

TNeg == <<"-", "5">>

TBad == <<"a", "b", "c">>

\* '9' * 310: a numeral beyond the float range
TLong == Repeated("9", 310)

TimeStrings ==
    {T02, T05, T10, T15, T02001, T05001, T1118, T01118, TNeg, TBad}

\* what a caller may pass as start_time / end_time, and as a file name
TimeArguments == TimeStrings \cup {NonString, TLong}

FileArguments == FileNames \cup {NonString}

(***************************************************************************)
(* Engine invocation records (one per ffprobe / ffmpeg run).               *)
(***************************************************************************)
EngineCall(engine, path, ss, to, vframes, fps, scale, outcome) ==
    [engine |-> engine, path |-> path, ss |-> ss, to |-> to,
     ss_str |-> <<>>, to_str |-> <<>>, vframes |-> vframes, fps |-> fps,
     scale |-> scale, out |-> <<>>, outcome |-> outcome, stderr |-> "",
     produced |-> {}, read_failed |-> FALSE, remove_failed |-> FALSE]

ProbeCall(path, outcome) ==
    EngineCall("probe", path, None, None, None, <<>>, None, outcome)

\* a run of the engine that has been started and has not ended: no exit
\* status, nothing read back, nothing removed
Running(c) ==
    [c EXCEPT !.outcome = "running", !.stderr = "", !.produced = {},
              !.read_failed = FALSE, !.remove_failed = FALSE]

\* the engine runs of a handler up to its i-th, which does not end
RunsUntilHang(log, i) == SubSeq(log, 1, i - 1) \o <<Running(log[i])>>

(***************************************************************************)
(* get_video_metadata (utils/ffmpeg_utils.py).  Returns the metadata       *)
(* (Optional) and the engine invocations made.                             *)
(***************************************************************************)
get_video_metadata(video_path) ==
    IF ~PathExists(video_path) THEN [value |-> None, log |-> <<>>]
    ELSE IF ~ProbeSucceeds(video_path) THEN
        [value |-> None, log |-> <<ProbeCall(video_path, "fail")>>]
    ELSE
        [value |-> Some([duration_seconds |-> ProbedDuration(video_path),
                         has_audio |-> ProbedHasAudio(video_path),
                         width |-> ProbedWidth(video_path)]),
         log |-> <<ProbeCall(video_path, "ok")>>]

(***************************************************************************)
(* extract_frames (utils/ffmpeg_utils.py).                                 *)
(* env = [outcome, outputs, read_error, cleanup_error]:                    *)
(*   outcome    "ok" (exit 0), "fail" (non-zero exit), "raise" (run_async  *)
(*              raised, e.g. the ffmpeg binary is missing)                 *)
(*   outputs    indices i of the files frame_%04d.png the engine left in   *)
(*              the temp dir                                               *)
(*   read_error open()/read() of a frame file raises                       *)
(*   cleanup_error  the removal of the temp dir, on leaving the with       *)
(*              block, raises (a file of it is locked or not removable)    *)
(* A frame's bytes are modelled by the index of the file they came from.   *)
(***************************************************************************)
QUALITY_TARGET_WIDTHS(q) ==
    CASE q = "low" -> 640
      [] q = "medium" -> 1280
      [] q = "high" -> 1920
      [] OTHER -> 640

\* mutant: the filter is applied whatever the source width
ScaleFilter_Always(original_width, quality_level) ==
    Some(QUALITY_TARGET_WIDTHS(quality_level))

\* lines 147-158: the scale filter's target width, None when no filter
ScaleFilter(original_width, quality_level) ==
    LET target_width == QUALITY_TARGET_WIDTHS(quality_level)
    IN  IF original_width > 0 /\ original_width > target_width
        THEN Some(target_width) ELSE None

\* mutant: the existence of a frame file is not tested
ReadPrefix_IgnoresMissing(outputs, i, num_frames) ==
    [j \in 1..num_frames |-> j - 1]

\* lines 240-246: read frame_0000, frame_0001, ... and stop at the first
\* missing one or after num_frames
RECURSIVE ReadPrefix(_, _, _)
ReadPrefix(outputs, i, num_frames) ==
    IF i >= num_frames \/ i \notin outputs THEN <<>>
    ELSE <<i>> \o ReadPrefix(outputs, i + 1, num_frames)

\* the frames read back, [] when a read raises (except Exception, line 257)
ReadBack(frames, env) ==
    IF Len(frames) > 0 /\ env.read_error THEN <<>> ELSE frames

\* the frame files in the temp dir after a run that was given the file
\* names `names`: none when the engine could not be started
Produced(env, names) ==
    IF env.outcome = "raise" THEN {} ELSE env.outputs \cap names

\* the record of one run of the frame decoder: the invocation, the files it
\* left, whether reading them back raised, and whether the removal of the
\* temp dir raised
FrameRun(call, env, names, read) ==
    [call EXCEPT !.produced = Produced(env, names),
                 !.read_failed = Len(read) > 0 /\ env.read_error,
                 !.remove_failed = env.cleanup_error]

\* lines 176-198: num_frames == 1
SingleFrameBranch(video_path, start_time_sec, end_time_sec, scale, env) ==
    [log |-> <<FrameRun(EngineCall("decode_frames", video_path,
                                   Some(start_time_sec), Some(end_time_sec),
                                   Some(1), <<>>, scale, env.outcome),
                        env, {1},
                        IF env.outcome = "ok" /\ 1 \in env.outputs
                        THEN <<1>> ELSE <<>>)>>,
     frames |-> IF env.outcome # "ok" THEN <<>>
                ELSE IF 1 \in env.outputs THEN ReadBack(<<1>>, env)
                ELSE <<>>]

\* lines 200-218: several frames asked of a range of at most 1 ms
FallbackBranch(video_path, start_time_sec, scale, env) ==
    [log |-> <<FrameRun(EngineCall("decode_frames", video_path,
                                   Some(start_time_sec), None, Some(1), <<>>,
                                   scale, env.outcome),
                        env, {1},
                        IF env.outcome = "ok" /\ 1 \in env.outputs
                        THEN <<1>> ELSE <<>>)>>,
     frames |-> IF env.outcome = "ok" /\ 1 \in env.outputs
                THEN ReadBack(<<1>>, env) ELSE <<>>]

\* lines 220-246: the fps filter num_frames / segment_duration, as a pair
MultiFrameBranch(video_path, start_time_sec, end_time_sec, num_frames, segment_duration, scale, env) ==
    [log |-> <<FrameRun(EngineCall("decode_frames", video_path,
                                   Some(start_time_sec), Some(end_time_sec),
                                   None, <<num_frames, segment_duration>>,
                                   scale, env.outcome),
                        env, 0..MaxIndex,
                        IF env.outcome = "raise" THEN <<>>
                        ELSE ReadPrefix(env.outputs, 0, num_frames))>>,
     frames |-> IF env.outcome = "raise" THEN <<>>
                ELSE ReadBack(ReadPrefix(env.outputs, 0, num_frames), env)]

\* line 162: leaving the `with tempfile.TemporaryDirectory()` block, by
\* return or by exception, removes the directory, unless the removal
\* itself raises: the directory, or what could not be removed of it, stays
TemporaryDirectoryExit(created, cleanup_error) ==
    IF cleanup_error THEN created ELSE created \ {"frames_dir"}

\* lines 162 and 254-259: the exception of a removal that failed replaces
\* the return of the with block and is caught by `except Exception`; the
\* function returns [] whatever was read
AfterCleanup(frames, cleanup_error) ==
    IF cleanup_error THEN <<>> ELSE frames

\* mutant: a near-zero range is sampled like any other
NearZero_Never(segment_duration) == FALSE

\* line 200: segment_duration <= 0.001
NearZero(segment_duration) == FloatLessEq(segment_duration, FloatOfMillis(1))

\* lines 166-168
SegmentDuration(d) == IF FloatLess(d, FloatZero) THEN FloatZero ELSE d

\* line 139
FrameRangeRejected(start_time_sec, end_time_sec) ==
    \/ FloatLess(start_time_sec, FloatZero)
    \/ FloatLess(end_time_sec, start_time_sec)

\* what the arithmetic on the range decides, whatever the engine does
FrameRange(start_time_sec, end_time_sec) ==
    [rejected |-> FrameRangeRejected(start_time_sec, end_time_sec),
     segment_duration |->
         SegmentDuration(FloatSub(end_time_sec, start_time_sec)),
     near_zero |->
         NearZero(SegmentDuration(FloatSub(end_time_sec, start_time_sec)))]

\* extract_frames, given the FrameRange of its start and end
ExtractFramesOf(range, video_path, start_time_sec, end_time_sec, num_frames, quality_level, env) ==
    IF \/ ~PathExists(video_path)
       \/ num_frames <= 0
       \/ range.rejected
    THEN [frames |-> <<>>, log |-> <<>>, temp_left |-> {}]
    ELSE
        LET original_metadata == get_video_metadata(video_path)
            original_width == IF IsNone(original_metadata.value) THEN 0
                              ELSE original_metadata.value[1].width
            scale == ScaleFilter(original_width, quality_level)
            body == IF num_frames = 1 THEN
                        SingleFrameBranch(video_path, start_time_sec,
                                          end_time_sec, scale, env)
                    ELSE IF range.near_zero THEN
                        FallbackBranch(video_path, start_time_sec, scale, env)
                    ELSE
                        MultiFrameBranch(video_path, start_time_sec,
                                         end_time_sec, num_frames,
                                         range.segment_duration, scale, env)
        IN  [frames |-> AfterCleanup(body.frames, env.cleanup_error),
             log |-> original_metadata.log \o body.log,
             temp_left |-> TemporaryDirectoryExit({"frames_dir"},
                                                  env.cleanup_error)]

extract_frames(video_path, start_time_sec, end_time_sec, num_frames, quality_level, env) ==
    ExtractFramesOf(FrameRange(start_time_sec, end_time_sec), video_path,
                    start_time_sec, end_time_sec, num_frames, quality_level,
                    env)

(***************************************************************************)
(* extract_audio_segment (utils/ffmpeg_utils.py).                          *)
(* env = [outcome, size, read_error, remove_error]: size is the byte size  *)
(* of the wav file after the run (0: empty), remove_error that os.remove   *)
(* of the temp file raises.                                                *)
(***************************************************************************)
\* lines 302-339: how the try block is left, and with what value
AudioTry(env) ==
    IF env.outcome = "raise" THEN [exit |-> "exception", value |-> None]
    ELSE IF env.outcome = "fail" THEN [exit |-> "engine_failed", value |-> None]
    ELSE IF env.size > 0 THEN
        IF env.read_error THEN [exit |-> "read_error", value |-> None]
        ELSE [exit |-> "read_ok", value |-> Some("wav")]
    ELSE [exit |-> "empty", value |-> None]

\* lines 340-345: the finally block removes the temp file on every exit; an
\* exception of os.remove is caught and logged, and the file stays
AudioFinally(exit, temp, remove_error) ==
    IF remove_error THEN temp ELSE temp \ {"audio_wav"}

\* mutant: no range is turned away
AudioRangeRejected_Never(start_time_sec, end_time_sec) == FALSE

\* lines 281-288: a negative start, an inverted range, a duration <= 0
AudioRangeRejected(start_time_sec, end_time_sec) ==
    \/ FloatLess(start_time_sec, FloatZero)
    \/ FloatLess(end_time_sec, start_time_sec)
    \/ FloatLessEq(FloatSub(end_time_sec, start_time_sec), FloatZero)

\* the record of one run of the audio decoder: the invocation, whether it
\* left a non-empty wav file, whether reading that file back raised, and
\* whether the removal of the temp file raised
AudioRun(call, env) ==
    [call EXCEPT !.produced = IF env.outcome = "ok" /\ env.size > 0
                              THEN {1} ELSE {},
                 !.read_failed = env.outcome = "ok" /\ env.size > 0
                                    /\ env.read_error,
                 !.remove_failed = env.remove_error]

\* extract_audio_segment, given whether its range is turned away
ExtractAudioOf(rejected, video_path, start_time_sec, end_time_sec, env) ==
    IF \/ ~PathExists(video_path)
       \/ rejected
    THEN [value |-> None, log |-> <<>>, temp_left |-> {}, exit |-> "guard"]
    ELSE
        LET metadata == get_video_metadata(video_path)
        IN  IF IsNone(metadata.value) \/ ~metadata.value[1].has_audio
            THEN [value |-> None, log |-> metadata.log, temp_left |-> {},
                  exit |-> "no_audio"]
            ELSE
                LET t == AudioTry(env)
                IN  [value |-> t.value,
                     log |-> metadata.log \o
                             <<AudioRun(EngineCall("decode_audio", video_path,
                                                   Some(start_time_sec),
                                                   Some(end_time_sec), None,
                                                   <<>>, None, env.outcome),
                                        env)>>,
                     temp_left |-> AudioFinally(t.exit, {"audio_wav"},
                                                env.remove_error),
                     exit |-> t.exit]

extract_audio_segment(video_path, start_time_sec, end_time_sec, env) ==
    ExtractAudioOf(AudioRangeRejected(start_time_sec, end_time_sec),
                   video_path, start_time_sec, end_time_sec, env)

(***************************************************************************)
(* Output names of save_video_segment_impl.                                *)
(***************************************************************************)
OutputNames ==
    {<<"a", ".", "m", "p", "4">>, <<"c", "l", "i", "p">>,
     <<"c", ".", "M", "O", "V">>, <<".", ".", "/", "e", ".", "m", "p", "4">>,
     <<"/", "t", "/", "a", ".", "m", "p", "4">>,
     <<".", "/", "a", ".", "m", "p", "4">>,
     <<"/", "/", "t", "/", ".", "/", "a", ".", "m", "p", "4">>}

\* the code points of chr(n).lower(), for the characters of the model: the
\* ASCII capitals, U+212A KELVIN SIGN, and U+0130, which lowers to two
\* characters
LowerCodePoints(n) ==
    IF n \in 65..90 THEN <<n + 32>>
    ELSE IF n = 8490 THEN <<107>>
    ELSE IF n = 304 THEN <<105, 775>>
    ELSE <<n>>

CharactersOf(code_points) ==
    [i \in 1..Len(code_points) |-> Character(code_points[i])]

LowerOf == [c \in Characters |-> CharactersOf(LowerCodePoints(CodePointOf[c]))]

\* c.lower(), a str
Lower(c) == LowerOf[c]

\* s.lower()
RECURSIVE LowerStr(_)
LowerStr(s) ==
    IF Len(s) = 0 THEN <<>> ELSE Lower(s[1]) \o LowerStr(Tail(s))

\* str.endswith(suffix)
EndsWith(s, suffix) ==
    /\ Len(s) >= Len(suffix)
    /\ SubSeq(s, Len(s) - Len(suffix) + 1, Len(s)) = suffix

\* line 81: the tuple of extensions
VideoExtensions ==
    {<<".", "m", "p", "4">>, <<".", "m", "o", "v">>,
     <<".", "a", "v", "i">>, <<".", "m", "k", "v">>}

DefaultExtension == <<".", "m", "p", "4">>

\* mutant: the extension is compared without lowering the name
NormaliseOutputName_CaseSensitive(name) ==
    IF \E x \in VideoExtensions : EndsWith(name, x)
    THEN name ELSE name \o DefaultExtension

\* lines 81-84: append .mp4 unless the lowered name ends in a video extension
NormaliseOutputName(name) ==
    IF \E x \in VideoExtensions : EndsWith(LowerStr(name), x)
    THEN name ELSE name \o DefaultExtension

(***************************************************************************)
(* pathlib: a path is [root, parts], root "", "/" or "//" and parts the     *)
(* sequence of its components (each a str).  There are no symbolic links.  *)
(***************************************************************************)
\* the working directory of the process
Cwd == <<<<"w">>>>

\* line 65: output_dir = Path(SAVED_CLIPS_SUBDIR)
SAVED_CLIPS_SUBDIR == <<"s", "a", "v", "e", "d", "_", "c", "l", "i", "p", "s">>

\* the number of separators a name starts with
LeadingSlashes(name) ==
    Cardinality({i \in DOMAIN name : \A j \in 1..i : name[j] = "/"})

\* the root of Path(name): exactly two leading separators are kept as the
\* root "//", one or more than two make the root "/"
RootOf(name) ==
    IF LeadingSlashes(name) = 0 THEN <<>>
    ELSE IF LeadingSlashes(name) = 2 THEN <<"/", "/">>
    ELSE <<"/">>

\* Path(name): the components between separators, the empty ones and the
\* "." ones dropped (".." is kept)
PathOf(name) ==
    [root |-> RootOf(name),
     parts |-> SelectSeq(Split(name, "/"),
                         LAMBDA c : c \notin {<<>>, <<".">>})]

\* dir / name: an absolute right operand replaces the left one
PathJoin(dir, path) ==
    IF path.root # <<>> THEN path
    ELSE [root |-> dir.root, parts |-> dir.parts \o path.parts]

RECURSIVE JoinParts(_)
JoinParts(parts) ==
    IF Len(parts) = 0 THEN <<>>
    ELSE IF Len(parts) = 1 THEN parts[1]
    ELSE parts[1] \o <<"/">> \o JoinParts(Tail(parts))

\* str(path), the string handed to the encoder
PathStr(path) ==
    IF path.root = <<>> /\ path.parts = <<>> THEN <<".">>
    ELSE path.root \o JoinParts(path.parts)

\* removal of "." and ".." components, left to right
RECURSIVE Collapse(_, _)
Collapse(parts, acc) ==
    IF Len(parts) = 0 THEN acc
    ELSE IF parts[1] = <<".">> THEN Collapse(Tail(parts), acc)
    ELSE IF parts[1] = <<".", ".">> THEN
        Collapse(Tail(parts),
                 IF Len(acc) = 0 THEN acc ELSE SubSeq(acc, 1, Len(acc) - 1))
    ELSE Collapse(Tail(parts), Append(acc, parts[1]))

\* Path.resolve(): the absolute path, as its components from the root "/"
\* (the root "//" resolves to "/")
Resolve(path) ==
    Collapse(IF path.root # <<>> THEN path.parts ELSE Cwd \o path.parts,
             <<>>)

\* lines 74 and 84: output_full_path = output_dir / output_file_name
OutputFullPath(output_file_name) ==
    PathJoin(PathOf(SAVED_CLIPS_SUBDIR), PathOf(output_file_name))

\* the file output_full_path names
OutputFile(output_file_name) == Resolve(OutputFullPath(output_file_name))

\* the output paths handed to trim_and_save_segment
TrimOutputs == {<<"a", ".", "m", "p", "4">>, <<"c", ".", "M", "O", "V">>}

\* the files save_video_segment_impl and trim_and_save_segment can write
OutputPaths ==
    {OutputFile(NormaliseOutputName(n)) : n \in OutputNames}
        \cup {Resolve(PathOf(n)) : n \in TrimOutputs}

(***************************************************************************)
(* Requests.                                                               *)
(***************************************************************************)
DEFAULT_NUM_FRAMES == 3

DEFAULT_QUALITY_LEVEL == "low"

NumFramesInputs == {None} \cup {Some(n) : n \in 0..MaxFrames}

\* "" is the falsy str of line 64
QualityInputs == {None, Some("medium"), Some("")}

\* every count with the default quality, every quality with the default
\* count
ViewRequests ==
    [op : {"view"}, file_name : FileArguments, start_time : TimeArguments,
     end_time : TimeArguments, num_frames : NumFramesInputs,
     quality : {None}, output_file_name : {<<>>}]
        \cup [op : {"view"}, file_name : FileArguments,
              start_time : TimeArguments, end_time : TimeArguments,
              num_frames : {None}, quality : QualityInputs,
              output_file_name : {<<>>}]

SaveRequests ==
    [op : {"save"}, file_name : FileArguments, start_time : TimeArguments,
     end_time : TimeArguments, num_frames : {None}, quality : {None},
     output_file_name : OutputNames \cup {NonString}]

FrameEnvs ==
    [outcome : {"ok", "fail", "raise"}, outputs : SUBSET (0..MaxIndex),
     read_error : BOOLEAN, cleanup_error : BOOLEAN]

AudioEnvs ==
    [outcome : {"ok", "fail", "raise"}, size : {0, 1}, read_error : BOOLEAN,
     remove_error : BOOLEAN]

EncodeEnvs ==
    [outcome : {"ok", "fail", "raise"},
     stderr : {"", "Invalid data found when processing input"},
     partial : BOOLEAN]

(***************************************************************************)
(* The calls process_prompt makes.  In the first MaxVariedCalls iterations *)
(* of its loop the model may ask for any tool, with any of the arguments   *)
(* below, and the engines may fail; in a later iteration the tool and its  *)
(* arguments are fixed and the engines work.  `a` is the record of the     *)
(* agent: its pc is "" when a tool is called on its own.                   *)
(***************************************************************************)
\* number of leading iterations in which the calls vary
MaxVariedCalls == 1

Varied(a) == a.iteration < MaxVariedCalls

UnderProcessPrompt(a) == a.pc # ""

AgentViewRequests(a) ==
    IF Varied(a)
    THEN [op : {"view"},
          file_name : {DummyVideo, CorruptVideo, MissingVideo, NonString},
          start_time : {T02}, end_time : {T05, TBad, TLong},
          num_frames : {Some(2)}, quality : {None},
          output_file_name : {<<>>}]
    ELSE {[op |-> "view", file_name |-> DummyVideo, start_time |-> T05,
           end_time |-> T10, num_frames |-> Some(2), quality |-> None,
           output_file_name |-> <<>>]}

AgentSaveRequests(a) ==
    IF Varied(a)
    THEN [op : {"save"}, file_name : {DummyVideo, CorruptVideo},
          start_time : {T02}, end_time : {T05, TBad}, num_frames : {None},
          quality : {None},
          output_file_name : {<<"a", ".", "m", "p", "4">>,
                              <<".", "/", "a", ".", "m", "p", "4">>,
                              <<".", ".", "/", "e", ".", "m", "p", "4">>}]
    ELSE {[op |-> "save", file_name |-> DummyVideo, start_time |-> T05,
           end_time |-> T10, num_frames |-> None, quality |-> None,
           output_file_name |-> <<"c", ".", "M", "O", "V">>]}

FrameEnvsOf(a) ==
    IF ~UnderProcessPrompt(a) THEN FrameEnvs
    ELSE IF Varied(a)
    THEN [outcome : {"ok", "fail"}, outputs : {{}, {0, 1}},
          read_error : {FALSE}, cleanup_error : {FALSE}]
    ELSE {[outcome |-> "ok", outputs |-> {0, 1}, read_error |-> FALSE,
           cleanup_error |-> FALSE]}

AudioEnvsOf(a) ==
    IF ~UnderProcessPrompt(a) THEN AudioEnvs
    ELSE IF Varied(a)
    THEN [outcome : {"ok", "fail"}, size : {1}, read_error : {FALSE},
          remove_error : BOOLEAN]
    ELSE {[outcome |-> "ok", size |-> 1, read_error |-> FALSE,
           remove_error |-> FALSE]}

EncodeEnvsOf(a) ==
    IF ~UnderProcessPrompt(a) THEN EncodeEnvs
    ELSE IF Varied(a)
    THEN [outcome : {"ok", "fail"}, stderr : {""}, partial : BOOLEAN]
    ELSE {[outcome |-> "ok", stderr |-> "", partial |-> FALSE]}

\* whether output_dir.mkdir succeeds
MkdirOutcomesOf(a) ==
    IF UnderProcessPrompt(a) /\ ~Varied(a) THEN {TRUE} ELSE BOOLEAN

(***************************************************************************)
(* State.                                                                  *)
(***************************************************************************)
VARIABLES
    req,             \* the arguments of the call being served
    pc,              \* position in the handler
    start_time_sec,  \* Optional: parsed start
    end_time_sec,    \* Optional: parsed end (save: after clamping)
    effective_end,   \* Optional: view's effective_end_time_sec
    video_metadata,  \* Optional: the probe's result held by the handler
    out_name,        \* save: output_file_name after normalisation
    result,          \* the dictionary the handler returns
    engine_log,      \* engine invocations of this call, in order
    call_log,        \* calls of extract_frames / extract_audio_segment
    temp_files,      \* temporary artifacts that exist
    clips,           \* path -> "absent", "old", "new", "partial", "empty"
    call,            \* a direct call of a helper function: its arguments
    ret,             \* what that call returned
    raised,          \* the exception that left the handler, "" if none
    previous,        \* the results of the earlier calls with these arguments
    conversation_history, \* process_prompt: the list of contents
    agent            \* process_prompt: position, loop counter and locals

vars ==
    <<req, pc, start_time_sec, end_time_sec, effective_end, video_metadata,
      out_name, result, engine_log, call_log, temp_files, clips, call, ret,
      raised, previous, conversation_history, agent>>

\* no helper is being called directly
(***************************************************************************)
(* list_directory_contents_impl (tools/file_system_tool.py).  A directory  *)
(* gives each name one kind: absent, a regular file the probe reads, a     *)
(* regular file the probe fails on, or a sub-directory.                    *)
(***************************************************************************)
\* largest number of items in a generated directory
MaxDirSize == 3

EntryNames ==
    {<<"b", ".", "m", "p", "4">>, <<"A", ".", "M", "O", "V">>,
     <<"a", ".", "t", "x", "t">>, <<"c", ".", "w", "e", "b", "m">>,
     <<"a", ".", "m", "p", "4", ".", "b", "a", "k">>, <<"m", "p", "4">>,
     <<"k", ".", "F", "L", "V">>}

EntryKinds == {"absent", "file", "unprobeable", "dir"}

Directories ==
    {d \in [EntryNames -> EntryKinds] :
        Cardinality({n \in EntryNames : d[n] # "absent"}) <= MaxDirSize}

EmptyDirectory == [n \in EntryNames |-> "absent"]

\* the directory path: a directory, not one, or one that cannot be read
DirectoryStates == {"ok", "missing", "unreadable"}

\* line 12
VIDEO_EXTENSIONS ==
    {<<".", "m", "p", "4">>, <<".", "m", "o", "v">>, <<".", "a", "v", "i">>,
     <<".", "m", "k", "v">>, <<".", "f", "l", "v">>, <<".", "w", "m", "v">>,
     <<".", "w", "e", "b", "m">>}

\* str comparison a < b, by code point, a proper prefix being smaller
RECURSIVE StrLess(_, _)
StrLess(a, b) ==
    IF Len(b) = 0 THEN FALSE
    ELSE IF Len(a) = 0 THEN TRUE
    ELSE IF a[1] # b[1] THEN CodePoint(a[1]) < CodePoint(b[1])
    ELSE StrLess(Tail(a), Tail(b))

Smallest(S) == CHOOSE x \in S : \A y \in S \ {x} : StrLess(x, y)

RECURSIVE SortedFrom(_, _)
SortedFrom(S, m) ==
    IF S = {m} THEN <<m>>
    ELSE <<m>> \o SortedFrom(S \ {m}, Smallest(S \ {m}))

\* line 41: sorted(os.listdir(video_directory_path))
SortedListdir(d) ==
    IF d = EmptyDirectory THEN <<>>
    ELSE SortedFrom({n \in EntryNames : d[n] # "absent"},
                    Smallest({n \in EntryNames : d[n] # "absent"}))

\* mutant: the extension is compared without lowering the name
IsVideoFile_CaseSensitive(item_name, kind) ==
    /\ kind \in {"file", "unprobeable"}
    /\ \E x \in VIDEO_EXTENSIONS : EndsWith(item_name, x)

\* line 43: os.path.isfile(item_path) and item_name.lower().endswith(...)
IsVideoFile(item_name, kind) ==
    /\ kind \in {"file", "unprobeable"}
    /\ \E x \in VIDEO_EXTENSIONS : EndsWith(LowerStr(item_name), x)

\* lines 45-64: the entry appended for a video file
InfoLine(item_name, kind) ==
    [name |-> item_name,
     info |-> IF kind = "file" THEN "metadata" ELSE "unavailable"]

\* lines 41-68: the loop over the sorted names
RECURSIVE ScanItems(_, _)
ScanItems(names, d) ==
    IF Len(names) = 0 THEN <<>>
    ELSE IF IsVideoFile(names[1], d[names[1]])
         THEN <<InfoLine(names[1], d[names[1]])>> \o ScanItems(Tail(names), d)
    ELSE ScanItems(Tail(names), d)

\* lines 75-80
ListingOf(video_files_info) ==
    [status |-> IF Len(video_files_info) = 0 THEN "no_video_files" ELSE "listing",
     entries |-> video_files_info]

\* lines 34-80
list_directory_contents_impl(state, d) ==
    CASE state = "missing" -> [status |-> "error_not_found", entries |-> <<>>]
      [] state = "unreadable" -> [status |-> "error_access", entries |-> <<>>]
      [] OTHER -> ListingOf(ScanItems(SortedListdir(d), d))

\* line 45: get_video_metadata(item_path) runs the probe on every video
\* file of the loop, in the order of the listing
RECURSIVE ScanProbes(_, _)
ScanProbes(names, d) ==
    IF Len(names) = 0 THEN <<>>
    ELSE IF IsVideoFile(names[1], d[names[1]])
         THEN <<ProbeCall(names[1], IF d[names[1]] = "file" THEN "ok"
                                    ELSE "fail")>>
                  \o ScanProbes(Tail(names), d)
    ELSE ScanProbes(Tail(names), d)

\* the engine runs of list_directory_contents_impl
ListingProbes(state, d) ==
    IF state = "ok" THEN ScanProbes(SortedListdir(d), d) ELSE <<>>

\* the range of a call that takes none
NoRange == [start |-> FloatZero, end |-> FloatZero]

NoCall ==
    [fn |-> "", time_str |-> <<>>, original_width |-> 0,
     quality_level |-> "", name |-> <<>>, dir_state |-> "",
     directory |-> EmptyDirectory, video_path |-> <<>>, range |-> NoRange]

NoRet ==
    [done |-> FALSE, seconds |-> None, scale |-> None, name |-> <<>>,
     status |-> "", entries |-> <<>>, raised |-> "", saved |-> FALSE]

\* process_prompt is not running
NoAgent ==
    [pc |-> "", prompt_is_str |-> TRUE, iteration |-> 0, tool_name |-> "",
     images |-> 0, audios |-> 0, generate_calls |-> 0,
     tool_invocations |-> 0, returned |-> "", raised |-> ""]

\* two engine runs with the same command line
SameCommand(a, b) ==
    /\ a.engine = b.engine
    /\ a.path = b.path
    /\ a.ss = b.ss
    /\ a.to = b.to
    /\ a.ss_str = b.ss_str
    /\ a.to_str = b.to_str
    /\ a.vframes = b.vframes
    /\ a.fps = b.fps
    /\ a.scale = b.scale
    /\ a.out = b.out

NoResult ==
    [status |-> "", message |-> "", detail |-> "", images |-> <<>>,
     audios |-> <<>>, output_path |-> <<>>, error |-> ""]

\* mutant: the dict outlives the call (a module-level or default-argument
\* dict) and the next call starts on what the last one left in it
NewResult_Kept(left) == left

\* view_tool.py lines 69-73: the result dict is built anew by every call,
\* with no status and empty lists, whatever an earlier call has returned
NewResult(left) == NoResult

ErrorResult(message) == [NoResult EXCEPT !.status = "error", !.message = message]

Init ==
    /\ req \in ViewRequests \cup SaveRequests
    /\ pc = "start"
    /\ start_time_sec = None
    /\ end_time_sec = None
    /\ effective_end = None
    /\ video_metadata = None
    /\ out_name = <<>>
    /\ result = NoResult
    /\ engine_log = <<>>
    /\ call_log = <<>>
    /\ temp_files = {}
    \* saved_clips is empty, or (for a save request, the only operation
    \* that looks at it) already holds a file of every name
    /\ clips \in {[p \in OutputPaths |-> "absent"]} \cup
                 {[p \in OutputPaths |-> "old"] : x \in {req.op} \cap {"save"}}
    /\ call = NoCall
    /\ ret = NoRet
    /\ raised = ""
    /\ previous = <<>>
    /\ conversation_history = <<>>
    /\ agent = NoAgent

(***************************************************************************)
(* view_video_segment_impl (tools/view_tool.py).                           *)
(***************************************************************************)
\* lines 58-62
NumFramesToExtract(num_frames) ==
    IF IsNone(num_frames) \/ num_frames[1] <= 0 THEN DEFAULT_NUM_FRAMES
    ELSE num_frames[1]

\* line 64
CurrentQualityLevel(quality) ==
    IF IsNone(quality) \/ quality[1] = "" THEN DEFAULT_QUALITY_LEVEL
    ELSE quality[1]

\* mutant: the operands of the ordering test exchanged
ViewOrderRejected_Swapped(s, e) == FloatLess(s, e)

\* line 96: the ordering test of the view tool
ViewOrderRejected(s, e) == FloatLess(e, s)

\* line 110: the start-against-duration test of the view tool
ViewStartRejected(s, duration) == FloatLess(duration, s)

\* mutant: the end is not clamped to the duration
Min_NoClamp(a, b) == a

\* line 117
Min(a, b) == IF FloatLess(b, a) THEN b ELSE a

\* the result of a validation that fails
ViewRejected(msg, log, s, e) ==
    [ok |-> FALSE, result |-> ErrorResult(msg), log |-> log,
     start |-> s, end |-> e, metadata |-> None, effective |-> None]

\* lines 102-120: probe, start against duration, clamping
ViewProbeChecks(s, e, md) ==
    IF IsNone(md.value) THEN
        ViewRejected("Could not retrieve metadata", md.log, s, e)
    ELSE IF ViewStartRejected(s[1], md.value[1].duration_seconds) THEN
        ViewRejected("Start time is beyond the video duration", md.log, s, e)
    ELSE [ok |-> TRUE, result |-> NoResult, log |-> md.log,
          start |-> s, end |-> e, metadata |-> md.value,
          effective |-> Some(Min(e[1], md.value[1].duration_seconds))]

\* lines 75-100: existence, parse results, sign, order
ViewChecks(file_name, s, e) ==
    IF ~PathExists(file_name) THEN
        ViewRejected("Video file not found", <<>>, None, None)
    ELSE IF IsNone(s) \/ IsNone(e) THEN
        ViewRejected("Invalid time format", <<>>, s, e)
    ELSE IF FloatLess(s[1], FloatZero) \/ FloatLess(e[1], FloatZero) THEN
        ViewRejected("Start and end times must be non-negative.", <<>>, s, e)
    ELSE IF ViewOrderRejected(s[1], e[1]) THEN
        ViewRejected("End time cannot be before start time", <<>>, s, e)
    ELSE ViewProbeChecks(s, e, get_video_metadata(file_name))

\* lines 67-120: existence, parsing, validation, probe, clamping.
\* Returns the error result, or the locals with which extraction starts.
ViewValidation(r) ==
    ViewChecks(r.file_name, parse_time_to_seconds(r.start_time),
               parse_time_to_seconds(r.end_time))

\* the exception that leaves the two calls of the parser, "" if none: the
\* start time is parsed first
TimesRaise(start_time, end_time) ==
    IF ParseRaises(start_time) # "" THEN ParseRaises(start_time)
    ELSE ParseRaises(end_time)

\* the exception that leaves view_video_segment_impl, "" if none:
\* os.path.join (line 67) raises TypeError on a file name that is not a str;
\* the parser (lines 81-82) lets AttributeError and OverflowError out
ViewRaises(r) ==
    IF ~IsStr(r.file_name) THEN "TypeError"
    ELSE IF ~PathExists(r.file_name) THEN ""
    ELSE TimesRaise(r.start_time, r.end_time)

ViewValidate ==
    /\ pc = "start"
    /\ req.op = "view"
    /\ IF ViewRaises(req) # ""
       THEN /\ raised' = ViewRaises(req)
            /\ pc' = "raised"
            /\ UNCHANGED <<start_time_sec, end_time_sec, video_metadata,
                           effective_end, engine_log, result>>
       ELSE /\ \E v \in {ViewValidation(req)} :
                   /\ start_time_sec' = v.start
                   /\ end_time_sec' = v.end
                   /\ video_metadata' = v.metadata
                   /\ effective_end' = v.effective
                   /\ engine_log' = engine_log \o v.log
                   /\ result' = [NewResult(result) EXCEPT
                                     !.status = v.result.status,
                                     !.message = v.result.message]
                   /\ pc' = IF v.ok THEN "frames" ELSE "done"
            /\ UNCHANGED raised
    /\ UNCHANGED <<conversation_history, agent, previous, call, ret, req, out_name, call_log, temp_files, clips>>

\* lines 122-134, the engine and the temp storage behaving as one of envs
ExtractFramesStep(envs) ==
    /\ pc = "frames"
    /\ \E range \in {FrameRange(start_time_sec[1], effective_end[1])} :
       \E env \in envs :
        LET n == NumFramesToExtract(req.num_frames)
            q == CurrentQualityLevel(req.quality)
            x == ExtractFramesOf(range, req.file_name, start_time_sec[1],
                                 effective_end[1], n, q, env)
        IN  /\ result' = [result EXCEPT !.images = x.frames]
            /\ engine_log' = engine_log \o x.log
            /\ call_log' = Append(call_log,
                   [fn |-> "extract_frames", start |-> start_time_sec[1],
                    end |-> effective_end[1], num_frames |-> n,
                    quality |-> q])
            /\ temp_files' = temp_files \cup x.temp_left
    /\ pc' = "audio"
    /\ UNCHANGED <<conversation_history, agent, previous, call, ret, raised, req, start_time_sec, end_time_sec, effective_end,
                   video_metadata, out_name, clips>>

ViewExtractFrames == ExtractFramesStep(FrameEnvsOf(agent))

\* line 139: whether extract_audio_segment is called
AudioRequested(requested_segment_duration_sec, has_audio) ==
    FloatLessEq(FloatZero, requested_segment_duration_sec) /\ has_audio

\* lines 136-154, the engine and the temp storage behaving as one of envs;
\* line 148 appends the clip to the list of the result
ExtractAudioStep(envs) ==
    /\ pc = "audio"
    /\ IF AudioRequested(FloatSub(effective_end[1], start_time_sec[1]),
                         video_metadata[1].has_audio)
       THEN \E rejected \in {AudioRangeRejected(start_time_sec[1],
                                                 effective_end[1])} :
            \E env \in envs :
            LET a == ExtractAudioOf(rejected, req.file_name,
                                    start_time_sec[1], effective_end[1], env)
            IN  /\ result' = [result EXCEPT !.audios = @ \o a.value]
                /\ engine_log' = engine_log \o a.log
                /\ call_log' = Append(call_log,
                       [fn |-> "extract_audio_segment",
                        start |-> start_time_sec[1],
                        end |-> effective_end[1], num_frames |-> 0,
                        quality |-> ""])
                /\ temp_files' = temp_files \cup a.temp_left
       ELSE UNCHANGED <<result, engine_log, call_log, temp_files>>
    /\ pc' = "status"
    /\ UNCHANGED <<conversation_history, agent, previous, call, ret, raised, req, start_time_sec, end_time_sec, effective_end,
                   video_metadata, out_name, clips>>

ViewExtractAudio == ExtractAudioStep(AudioEnvsOf(agent))

\* mutant: only frames count as extracted media
FinalStatus_FramesOnly(num_images_extracted, num_audios_extracted) ==
    IF num_images_extracted > 0
    THEN [status |-> "success", message |-> "Media has been extracted"]
    ELSE [status |-> "partial_success", message |-> "No media was extracted"]

\* lines 160-173: the final status
FinalStatus(num_images_extracted, num_audios_extracted) ==
    IF num_images_extracted > 0 \/ num_audios_extracted > 0
    THEN [status |-> "success", message |-> "Media has been extracted"]
    ELSE [status |-> "partial_success", message |-> "No media was extracted"]

\* lines 156-174
ViewFinalStatus ==
    /\ pc = "status"
    /\ LET st == FinalStatus(Len(result.images), Len(result.audios))
       IN  result' = [result EXCEPT !.status = st.status,
                                    !.message = st.message]
    /\ pc' = "done"
    /\ UNCHANGED <<conversation_history, agent, previous, call, ret, raised, req, start_time_sec, end_time_sec, effective_end,
                   video_metadata, out_name, engine_log, call_log,
                   temp_files, clips>>

(***************************************************************************)
(* save_video_segment_impl (tools/save_video_segment_tool.py).             *)
(***************************************************************************)
\* mutant: the ordering test of the save tool made non-strict
SaveOrderRejected_NonStrict(s, e) == FloatLess(e, s)

\* line 99: the ordering test of the save tool
SaveOrderRejected(s, e) == FloatLessEq(e, s)

\* mutant: the start test of the save tool made strict
SaveStartRejected_Strict(s, duration) == FloatLess(duration, s)

\* line 107: the start-against-duration test of the save tool
SaveStartRejected(s, duration) == FloatLessEq(duration, s)

\* mutant: the error is built but the handler does not return
SaveRejected_NoReturn(msg, log, name, s, e) ==
    [ok |-> TRUE, result |-> ErrorResult(msg), log |-> log, name |-> name,
     start |-> s, end |-> e, metadata |-> None]

\* the result of a validation that fails
SaveRejected(msg, log, name, s, e) ==
    [ok |-> FALSE, result |-> ErrorResult(msg), log |-> log, name |-> name,
     start |-> s, end |-> e, metadata |-> None]

SaveAccepted(log, name, s, e, metadata) ==
    [ok |-> TRUE, result |-> NoResult, log |-> log, name |-> name,
     start |-> s, end |-> e, metadata |-> metadata]

\* lines 105-119: start against duration, clamping, re-check
SaveDurationChecks(name, s, e, log, metadata, video_duration_sec) ==
    IF SaveStartRejected(s[1], video_duration_sec) THEN
        SaveRejected("Start time is at or after video duration", log, name,
                     s, e)
    ELSE IF FloatLess(video_duration_sec, e[1]) THEN
        IF FloatLessEq(video_duration_sec, s[1]) THEN
            SaveRejected("Adjusted end time is not after start time after clamping to video duration",
                         log, name, s, Some(video_duration_sec))
        ELSE SaveAccepted(log, name, s, Some(video_duration_sec), metadata)
    ELSE SaveAccepted(log, name, s, e, metadata)

\* lines 104-121: the probe; without metadata the request proceeds
\* without duration validation
SaveProbeChecks(name, s, e, md) ==
    IF IsNone(md.value) THEN SaveAccepted(md.log, name, s, e, None)
    ELSE SaveDurationChecks(name, s, e, md.log, md.value,
                            md.value[1].duration_seconds)

\* lines 86-102: parse results, sign, order
SaveTimeChecks(file_name, name, s, e) ==
    IF IsNone(s) \/ IsNone(e) THEN
        SaveRejected("Invalid time format", <<>>, name, s, e)
    ELSE IF FloatLess(s[1], FloatZero) \/ FloatLess(e[1], FloatZero) THEN
        SaveRejected("Start and end times must be non-negative.", <<>>, name,
                     s, e)
    ELSE IF SaveOrderRejected(s[1], e[1]) THEN
        SaveRejected("End time must be after start time", <<>>, name, s, e)
    ELSE SaveProbeChecks(name, s, e, get_video_metadata(file_name))

\* lines 62-121.  mkdir_ok: output_dir.mkdir succeeds.
\* Returns the error result, or the locals with which the encoder starts.
SaveValidation(r, mkdir_ok) ==
    IF ~mkdir_ok THEN
        SaveRejected("Could not create output directory", <<>>,
                     r.output_file_name, None, None)
    ELSE IF ~PathExists(r.file_name) THEN
        SaveRejected("Source video file not found", <<>>,
                     r.output_file_name, None, None)
    ELSE SaveTimeChecks(r.file_name, NormaliseOutputName(r.output_file_name),
                        parse_time_to_seconds(r.start_time),
                        parse_time_to_seconds(r.end_time))

\* the exception that leaves save_video_segment_impl, "" if none:
\* Path(...) / source_file_name (line 62) and, once the directory is made,
\* output_dir / output_file_name (line 74) raise TypeError on a name that is
\* not a str; the parser (lines 86-87) lets AttributeError and
\* OverflowError out
SaveRaises(r, mkdir_ok) ==
    IF ~IsStr(r.file_name) THEN "TypeError"
    ELSE IF ~mkdir_ok THEN ""
    ELSE IF ~IsStr(r.output_file_name) THEN "TypeError"
    ELSE IF ~PathExists(r.file_name) THEN ""
    ELSE TimesRaise(r.start_time, r.end_time)

SaveValidate ==
    /\ pc = "start"
    /\ req.op = "save"
    /\ \E mkdir_ok \in MkdirOutcomesOf(agent) :
        IF SaveRaises(req, mkdir_ok) # ""
        THEN /\ raised' = SaveRaises(req, mkdir_ok)
             /\ pc' = "raised"
             /\ UNCHANGED <<start_time_sec, end_time_sec, video_metadata,
                            out_name, engine_log, result>>
        ELSE /\ \E v \in {SaveValidation(req, mkdir_ok)} :
                    /\ start_time_sec' = v.start
                    /\ end_time_sec' = v.end
                    /\ video_metadata' = v.metadata
                    /\ out_name' = v.name
                    /\ engine_log' = engine_log \o v.log
                    /\ result' = v.result
                    /\ pc' = IF v.ok THEN "encode" ELSE "done"
             /\ UNCHANGED raised
    /\ UNCHANGED <<conversation_history, agent, previous, call, ret, req, effective_end, call_log, temp_files, clips>>

\* line 131: the seek range handed to the encoder, ffmpeg.input(ss=, to=)
\* (the strings of the request, not start_time_sec / end_time_sec)
EncoderSeekStart(start_time, parsed_start) == start_time

EncoderSeekEnd(end_time, clamped_end) == end_time

\* lines 156-157: the diagnostic text of an ffmpeg.Error
ErrorDetails(stderr) ==
    IF stderr = "" THEN "No stderr output from FFmpeg." ELSE stderr

\* mutant: the exit status of the encoder is not looked at
EncodeResult_IgnoresExit(outcome, stderr, output_full_path) ==
    IF outcome # "raise" THEN
        [NoResult EXCEPT !.status = "success",
                         !.message = "Successfully trimmed segment",
                         !.output_path = output_full_path]
    ELSE [NoResult EXCEPT !.status = "error",
                          !.message = "An unexpected error occurred while saving segment",
                          !.detail = "exception text"]

\* lines 144-168: the dictionary returned for each way the run ends
EncodeResult(outcome, stderr, output_full_path) ==
    IF outcome = "ok" THEN
        [NoResult EXCEPT !.status = "success",
                         !.message = "Successfully trimmed segment",
                         !.output_path = output_full_path]
    ELSE IF outcome = "fail" THEN
        [NoResult EXCEPT !.status = "error", !.message = "FFmpeg error",
                         !.detail = ErrorDetails(stderr)]
    ELSE [NoResult EXCEPT !.status = "error",
                          !.message = "An unexpected error occurred while saving segment",
                          !.detail = "exception text"]

\* the output file after the run: ffmpeg -y writes it on success, and may
\* leave a partial file when it fails
FileAfterEncode(before, env) ==
    IF env.outcome = "ok" THEN "new"
    ELSE IF env.outcome = "fail" /\ env.partial THEN "partial"
    ELSE before

\* lines 131-144: the command line of the encoder
EncodeCommand(r, parsed_start, clamped_end, name, outcome) ==
    [EngineCall("encode", r.file_name, None, None, None, <<>>, None, outcome)
     EXCEPT !.ss_str = EncoderSeekStart(r.start_time, parsed_start),
            !.to_str = EncoderSeekEnd(r.end_time, clamped_end),
            !.out = PathStr(OutputFullPath(name))]

\* lines 127-168
SaveEncode ==
    /\ pc = "encode"
    /\ \E env \in EncodeEnvsOf(agent) :
        /\ engine_log' = Append(engine_log,
               [EncodeCommand(req, start_time_sec, end_time_sec, out_name,
                              env.outcome)
                EXCEPT !.stderr = IF env.outcome = "fail"
                                  THEN env.stderr ELSE ""])
        /\ result' = EncodeResult(env.outcome, env.stderr,
                                  Resolve(OutputFullPath(out_name)))
        /\ clips' = [clips EXCEPT ![OutputFile(out_name)] =
                                       FileAfterEncode(@, env)]
    /\ pc' = "done"
    /\ UNCHANGED <<conversation_history, agent, previous, call, ret, raised, req, start_time_sec, end_time_sec, effective_end,
                   video_metadata, out_name, call_log, temp_files>>

(***************************************************************************)
(* GeminiAgent._invoke_tool (llm_agent.py): the `except Exception` of      *)
(* lines 87-89 turns an exception that left the tool into                  *)
(* status_json = {"error": ...}.                                           *)
(***************************************************************************)
InvokeToolExcept ==
    /\ pc = "raised"
    /\ result' = [NoResult EXCEPT !.error = "Error in tool"]
    /\ pc' = "done"
    /\ UNCHANGED <<conversation_history, agent, previous, call, ret, raised, req, start_time_sec, end_time_sec,
                   effective_end, video_metadata, out_name, engine_log,
                   call_log, temp_files, clips>>

(***************************************************************************)
(* Specification: one call (its arguments drawn by Init) run to its return.*)
(***************************************************************************)
Next ==
    \/ InvokeToolExcept
    \/ ViewValidate
    \/ ViewExtractFrames
    \/ ViewExtractAudio
    \/ ViewFinalStatus
    \/ SaveValidate
    \/ SaveEncode

Spec == Init /\ [][Next]_vars

(***************************************************************************)
(* Specification of repeated calls: view_video_segment_impl called again   *)
(* with the same arguments, the source unchanged.  In every call the       *)
(* engine and the temp storage behave in any of the ways below, whatever   *)
(* they did in an earlier call.                                            *)
(***************************************************************************)
\* number of calls made with the same arguments
MaxCalls == 2

\* the calls that are repeated: accepted ones over an ordinary and a
\* near-zero range, rejected ones, and ones that raise
RepeatRequests ==
    [op : {"view"}, file_name : {DummyVideo, CorruptVideo, NonString},
     start_time : {T02, TBad}, end_time : {T05, T02001},
     num_frames : {None, Some(1)}, quality : {None},
     output_file_name : {<<>>}]

RepeatInit ==
    /\ Init
    /\ req \in RepeatRequests

\* the ways the frame decoder and its temp dir behave in a repeated call
RepeatFrameEnvs ==
    [outcome : {"ok", "fail"}, outputs : {{}, {0, 1}}, read_error : {FALSE},
     cleanup_error : BOOLEAN]

\* the ways the audio decoder and its temp file behave in a repeated call
RepeatAudioEnvs ==
    [outcome : {"ok"}, size : {0, 1}, read_error : {FALSE},
     remove_error : BOOLEAN]

\* the caller keeps what the call returned and calls again with the same
\* arguments: the parameters and locals of the handler are new, the dict
\* of the last call is where that call left it
ViewAgain ==
    /\ pc = "done"
    /\ req.op = "view"
    /\ Len(previous) + 1 < MaxCalls
    /\ previous' = Append(previous, result)
    /\ pc' = "start"
    /\ start_time_sec' = None
    /\ end_time_sec' = None
    /\ effective_end' = None
    /\ video_metadata' = None
    /\ raised' = ""
    /\ UNCHANGED <<conversation_history, agent, call, ret, req, out_name,
                   result, engine_log, call_log, temp_files, clips>>

RepeatExtractFrames == ExtractFramesStep(RepeatFrameEnvs)

RepeatExtractAudio == ExtractAudioStep(RepeatAudioEnvs)

RepeatNext ==
    \/ InvokeToolExcept
    \/ ViewValidate
    \/ RepeatExtractFrames
    \/ RepeatExtractAudio
    \/ ViewFinalStatus
    \/ ViewAgain

RepeatSpec == RepeatInit /\ [][RepeatNext]_vars

(***************************************************************************)
(* Second specification: the helper functions called directly, on          *)
(* arguments drawn by the initial state.                                   *)
(***************************************************************************)
\* largest length of the generated time strings
MaxStrLen == 4

Alphabet == {"0", "1", ":", ".", "-", "a", " "}

\* longer strings of interest
NamedTimeStrings ==
    {<<"1", ".", "2", ".", "a">>, <<"1", ":", "1", ":", "1", ":", "1">>,
     <<"1", ":", "0", "1", ":", "0", "1", ".", "1">>,
     <<"1", ".", "5">>, <<"1", ".", "5", "0", "0">>,
     <<"9", "0">>, <<"1", ":", "3", "0">>, <<"0", ":", "0", "1", ":", "3", "0">>,
     <<"9", "0", ".", "2", "5">>, <<"1", ":", "3", "0", ".", "2", "5">>,
     <<"3", "6", "6", "0">>, <<"6", "1", ":", "0", "0">>,
     <<"1", ":", "0", "1", ":", "0", "0">>,
     <<"\t", "1">>, <<"1", "\n">>, <<"\r", "1", ".", "\f", "5">>,
     <<"U+000B", "1">>, <<"U+00A0", "1", ":", "U+2003", "2">>,
     <<"U+0085", "+", "1">>, <<"+", "\t", "1">>, <<"U+001C", "1">>,
     <<"U+0661">>, <<"U+FF11", "U+FF15">>, <<"1", "U+09E9", ".", "U+0663">>,
     <<"-", "U+0661", "_", "0">>}

ParserInputs ==
    UNION {[1..n -> Alphabet] : n \in 0..MaxStrLen}
        \cup TimeStrings \cup NamedTimeStrings

\* widths the probe can report (0: unknown)
Widths == {0, 320, 640, 641, 1280, 1281, 1920, 1921, 3840}

QualityLevels == {"low", "medium", "high", "ultra", ""}

\* largest length of the generated output names
MaxNameLen == 5

NameAlphabet == {".", "m", "p", "4", "M", "a"}

NameInputs ==
    UNION {[1..n -> NameAlphabet] : n \in 0..MaxNameLen}
        \cup OutputNames
        \cup {<<"x", ".", "a", "v", "i">>, <<"x", ".", "M", "K", "V">>,
              <<"x", ".", "m", "o", "v">>, <<"x", ".", "m", "k", "v", ".", "t", "x", "t">>,
              <<"a", ".", "M", "U+212A", "V">>, <<"x", ".", "A", "V", "U+0130">>,
              <<"X", ".", "A", "v", "I">>, <<"b", ".", "m", "o", "v", "\n">>}

NormaliseCalls ==
    [fn : {"normalise_output_name"}, time_str : {<<>>}, original_width : {0},
     quality_level : {""}, name : NameInputs, dir_state : {""},
     directory : {EmptyDirectory},
     video_path : {<<>>}, range : {NoRange}]

\* the decimal numeral of 2^1024 - 2^970
FloatLimitNumeral ==
    [k \in 1..309 |->
        CHOOSE c \in {"0", "1", "2", "3", "4", "5", "6", "7", "8", "9"} :
            DigitVal(c) =
                (FloatLimit[(309 - k) \div LimbDigits + 1]
                    \div (10 ^ ((309 - k) % LimbDigits))) % 10]

\* ints beyond the float range: the limit itself, as the seconds, with a
\* minus sign and as the fraction; numerals of 309 and of more digits; hours
\* and minutes that cross the limit only times 3600 and times 60; and
\* numerals at and beyond the digit limit of int(): as the seconds, with a
\* sign, as the fraction, as the hours
LongTimeStrings ==
    {FloatLimitNumeral,
     <<"-">> \o FloatLimitNumeral,
     <<"0", ".">> \o FloatLimitNumeral,
     Repeated("9", 309),
     Repeated("9", 310),
     <<"0", ".">> \o Repeated("9", 310),
     Repeated("9", 306) \o <<":", "0", ":", "0">>,
     Repeated("9", 307) \o <<":", "0">>,
     Repeated("0", IntMaxStrDigits),
     Repeated("0", IntMaxStrDigits - 1) \o <<"1">>,
     Repeated("0", IntMaxStrDigits + 1),
     Repeated("0", IntMaxStrDigits) \o <<"1">>,
     <<"-">> \o Repeated("0", IntMaxStrDigits + 1),
     <<"0", ".">> \o Repeated("0", IntMaxStrDigits + 1),
     Repeated("0", IntMaxStrDigits + 1) \o <<":", "0", ":", "0">>,
     Repeated("9", IntMaxStrDigits + 1)}

\* the copies of the parser: view_tool's, which the tools call, ffmpeg_utils's
\* and the fallback of the save tool
ParserCopies ==
    {"parse_time_to_seconds", "ffmpeg_utils.parse_time_to_seconds",
     "save_video_segment_tool.parse_time_to_seconds"}

ParseCalls ==
    [fn : ParserCopies, time_str : ParserInputs \cup LongTimeStrings,
     original_width : {0}, quality_level : {""}, name : {<<>>},
     dir_state : {""}, directory : {EmptyDirectory},
     video_path : {<<>>}, range : {NoRange}]

ScaleCalls ==
    [fn : {"scale_filter"}, time_str : {<<>>}, original_width : Widths,
     quality_level : QualityLevels, name : {<<>>}, dir_state : {""},
     directory : {EmptyDirectory},
     video_path : {<<>>}, range : {NoRange}]

ListCalls ==
    [fn : {"list_directory_contents_impl"}, time_str : {<<>>},
     original_width : {0}, quality_level : {""}, name : {<<>>},
     dir_state : DirectoryStates, directory : Directories,
     video_path : {<<>>}, range : {NoRange}]

IdleRequest ==
    [op |-> "none", file_name |-> <<>>, start_time |-> <<>>,
     end_time |-> <<>>, num_frames |-> None, quality |-> None,
     output_file_name |-> <<>>]

\* the seconds a caller passes: -1.0, and the 2.0 and 7.0 of __main__
TrimSeconds == {FloatOfInt(0 - 1), FloatOfInt(2), FloatOfInt(7)}

TrimCalls ==
    [fn : {"trim_and_save_segment"}, time_str : {<<>>}, original_width : {0},
     quality_level : {""}, name : TrimOutputs, dir_state : {""},
     directory : {EmptyDirectory}, video_path : {DummyVideo, MissingVideo},
     range : [start : TrimSeconds, end : TrimSeconds]]

PureInit ==
    /\ call \in ParseCalls \cup ScaleCalls \cup NormaliseCalls \cup ListCalls
                  \cup TrimCalls
    /\ ret = NoRet
    /\ req = IdleRequest
    /\ pc = "idle"
    /\ start_time_sec = None
    /\ end_time_sec = None
    /\ effective_end = None
    /\ video_metadata = None
    /\ out_name = <<>>
    /\ result = NoResult
    /\ engine_log = <<>>
    /\ call_log = <<>>
    /\ temp_files = {}
    /\ clips = [p \in OutputPaths |-> "absent"]
    /\ raised = ""
    /\ previous = <<>>
    /\ conversation_history = <<>>
    /\ agent = NoAgent

PureUnchanged ==
    UNCHANGED <<conversation_history, agent, previous, raised, call, req, pc, start_time_sec, end_time_sec, effective_end,
                video_metadata, out_name, result, engine_log, call_log,
                temp_files, clips>>

\* the return of a parser copy
ParserReturn(o) ==
    [NoRet EXCEPT !.done = TRUE, !.seconds = o.value, !.raised = o.raised]

CallParse ==
    /\ call.fn = "parse_time_to_seconds"
    /\ ~ret.done
    /\ ret' = ParserReturn(view_tool_parse_time_to_seconds(call.time_str))
    /\ PureUnchanged

CallParseUtils ==
    /\ call.fn = "ffmpeg_utils.parse_time_to_seconds"
    /\ ~ret.done
    /\ ret' = ParserReturn(ffmpeg_utils_parse_time_to_seconds(call.time_str))
    /\ PureUnchanged

CallParseFallback ==
    /\ call.fn = "save_video_segment_tool.parse_time_to_seconds"
    /\ ~ret.done
    /\ ret' = ParserReturn(save_tool_parse_time_to_seconds(call.time_str))
    /\ PureUnchanged

CallScaleFilter ==
    /\ call.fn = "scale_filter"
    /\ ~ret.done
    /\ ret' = [NoRet EXCEPT !.done = TRUE,
                            !.scale = ScaleFilter(call.original_width,
                                                  call.quality_level)]
    /\ PureUnchanged

CallNormaliseOutputName ==
    /\ call.fn = "normalise_output_name"
    /\ ~ret.done
    /\ ret' = [NoRet EXCEPT !.done = TRUE,
                            !.name = NormaliseOutputName(call.name)]
    /\ PureUnchanged

CallListDirectory ==
    /\ call.fn = "list_directory_contents_impl"
    /\ ~ret.done
    /\ \E listing \in {list_directory_contents_impl(call.dir_state,
                                                    call.directory)} :
          ret' = [NoRet EXCEPT !.done = TRUE, !.status = listing.status,
                               !.entries = listing.entries]
    /\ engine_log' = engine_log
                        \o ListingProbes(call.dir_state, call.directory)
    /\ UNCHANGED <<conversation_history, agent, previous, raised, call, req,
                   pc, start_time_sec, end_time_sec, effective_end,
                   video_metadata, out_name, result, call_log, temp_files,
                   clips>>

(***************************************************************************)
(* trim_and_save_segment (utils/ffmpeg_utils.py).                          *)
(* env = [output_dir, outcome, written, partial]:                          *)
(*   output_dir "exists", "created" (os.makedirs made it) or "error"       *)
(*              (os.makedirs raised)                                       *)
(*   outcome    "ok" (exit 0), "fail" (non-zero exit), "raise"             *)
(*   written    what an engine that exits 0 left at the output path: a    *)
(*              file ("new"), an empty file ("empty"), nothing ("none")    *)
(*   partial    an engine that fails leaves a partial file                 *)
(***************************************************************************)
TrimEnvs ==
    [output_dir : {"exists", "created", "error"},
     outcome : {"ok", "fail", "raise"}, written : {"new", "empty", "none"},
     partial : BOOLEAN]

\* lines 369-374: a missing input, a negative start, an inverted range
TrimRejected(input_video_path, start, end) ==
    \/ ~PathExists(input_video_path)
    \/ FloatLess(start, FloatZero)
    \/ FloatLess(end, start)

\* the output file after the run
FileAfterTrim(before, env) ==
    IF env.outcome = "ok" THEN
        IF env.written = "none" THEN before ELSE env.written
    ELSE IF env.outcome = "fail" /\ env.partial THEN "partial"
    ELSE before

\* lines 403-414: exit status 0 and an output file that is not empty
TrimSucceeded(after, env) ==
    env.outcome = "ok" /\ after \notin {"absent", "empty"}

\* lines 348-422
CallTrimAndSave ==
    /\ call.fn = "trim_and_save_segment"
    /\ ~ret.done
    /\ IF TrimRejected(call.video_path, call.range.start, call.range.end)
       THEN /\ ret' = [NoRet EXCEPT !.done = TRUE]
            /\ UNCHANGED <<engine_log, clips>>
       ELSE \E env \in TrimEnvs :
            IF env.output_dir = "error"
            THEN /\ ret' = [NoRet EXCEPT !.done = TRUE]
                 /\ UNCHANGED <<engine_log, clips>>
            ELSE LET after == FileAfterTrim(clips[Resolve(PathOf(call.name))],
                                            env)
                 IN  /\ engine_log' = Append(engine_log,
                            [EngineCall("encode", call.video_path,
                                        Some(call.range.start),
                                        Some(call.range.end), None, <<>>,
                                        None, env.outcome)
                             EXCEPT !.out = call.name])
                     /\ clips' = [clips EXCEPT
                                      ![Resolve(PathOf(call.name))] = after]
                     /\ ret' = [NoRet EXCEPT !.done = TRUE,
                                             !.saved = TrimSucceeded(after, env)]
    /\ UNCHANGED <<conversation_history, agent, previous, raised, call, req,
                   pc, start_time_sec, end_time_sec, effective_end,
                   video_metadata, out_name, result, call_log, temp_files>>

PureNext ==
    \/ CallTrimAndSave
    \/ CallParse
    \/ CallParseUtils
    \/ CallParseFallback
    \/ CallScaleFilter
    \/ CallNormaliseOutputName
    \/ CallListDirectory

PureSpec == PureInit /\ [][PureNext]_vars

(***************************************************************************)
(* GeminiAgent.process_prompt (llm_agent.py).  The model's responses and   *)
(* what the invoked tool returns are the environment's choice.             *)
(***************************************************************************)
\* line 18
MAX_TOOL_ITERATIONS == 10

\* tool_definitions.py lines 6-8
FILE_DIRECTORY_TOOL_NAME == "list_directory_contents"

VIEW_TOOL_NAME == "view_video_segment"

SAVE_VIDEO_SEGMENT_TOOL_NAME == "save_video_segment"

\* one types.Content of the history
Content(role, kind, name, images, audios) ==
    [role |-> role, kind |-> kind, name |-> name, images |-> images,
     audios |-> audios]

\* what the history holds when process_prompt is called
EarlierHistories ==
    {<<>>, <<Content("user", "text", "", 0, 0),
             Content("model", "text", "", 0, 0)>>}

\* the tools the model asks for in iteration n: any one, an unknown one
\* included, while the calls vary; then the save and the view tool in turn
ToolNamesAsked(n) ==
    IF n < MaxVariedCalls
    THEN {FILE_DIRECTORY_TOOL_NAME, VIEW_TOOL_NAME,
          SAVE_VIDEO_SEGMENT_TOOL_NAME, "no_such_tool"}
    ELSE IF n % 2 = 1 THEN {SAVE_VIDEO_SEGMENT_TOOL_NAME}
    ELSE {VIEW_TOOL_NAME}

\* generate_content: it raises, returns no candidate, a response without a
\* function call (with or without content), or one with a function call,
\* whose args are a mapping or, the call naming no argument, None
GenerateOutcomes(n) ==
    [kind : {"api_error", "no_candidates"}, has_content : {FALSE},
     tool_name : {""}, args_none : {FALSE}]
        \cup [kind : {"text"}, has_content : BOOLEAN, tool_name : {""},
              args_none : {FALSE}]
        \cup [kind : {"function_call"}, has_content : BOOLEAN,
              tool_name : ToolNamesAsked(n), args_none : BOOLEAN]

\* the directory with the given regular files, the probe failing on some
DirectoryOf(files, unprobeable) ==
    [n \in EntryNames |->
        IF n \in unprobeable THEN "unprobeable"
        ELSE IF n \in files THEN "file"
        ELSE "absent"]

\* self.video_directory_path as the listing tool may find it
AgentDirectories ==
    {[dir_state |-> "ok",
      directory |-> DirectoryOf({<<"A", ".", "M", "O", "V">>,
                                 <<"a", ".", "t", "x", "t">>},
                                {<<"b", ".", "m", "p", "4">>})],
     [dir_state |-> "ok", directory |-> EmptyDirectory],
     [dir_state |-> "missing", directory |-> EmptyDirectory]}

\* line 67: media_data["status_json"] = {"result": result_str}
ListingResult(listing) == [NoResult EXCEPT !.message = listing.status]

\* line 86: the status of a tool _invoke_tool does not know
UnknownToolResult == [NoResult EXCEPT !.error = "Unknown tool"]

AgentInit ==
    /\ conversation_history \in EarlierHistories
    /\ agent \in {[NoAgent EXCEPT !.pc = "prompt", !.prompt_is_str = b] :
                     b \in BOOLEAN}
    /\ call = NoCall
    /\ ret = NoRet
    /\ req = IdleRequest
    /\ pc = "idle"
    /\ start_time_sec = None
    /\ end_time_sec = None
    /\ effective_end = None
    /\ video_metadata = None
    /\ out_name = <<>>
    /\ result = NoResult
    /\ engine_log = <<>>
    /\ call_log = <<>>
    /\ temp_files = {}
    /\ clips = [p \in OutputPaths |-> "absent"]
    /\ raised = ""
    /\ previous = <<>>

ToolsUnchanged ==
    UNCHANGED <<raised, call, ret, req, pc, start_time_sec, end_time_sec,
                effective_end, video_metadata, out_name, result, engine_log,
                call_log, temp_files, clips, previous>>

\* lines 191, 150, 154, 224, 123: the function returns
Return(a, message) == [a EXCEPT !.pc = "returned", !.returned = message]

\* lines 121-128
ReceivePrompt ==
    /\ agent.pc = "prompt"
    /\ IF ~agent.prompt_is_str
       THEN /\ agent' = Return(agent, "internal_error")
            /\ UNCHANGED conversation_history
       ELSE /\ conversation_history' =
                  Append(conversation_history,
                         Content("user", "text", "", 0, 0))
            /\ agent' = [agent EXCEPT !.pc = "generate"]
    /\ ToolsUnchanged

\* lines 174-191: a response without a function call
TextResponse(a, history, has_content) ==
    [agent |-> Return(a, "text"),
     history |-> IF has_content
                 THEN Append(history, Content("model", "text", "", 0, 0))
                 ELSE history]

\* lines 193-200: the model's content, or a placeholder for it, is appended
FunctionCallResponse(a, history, tool_name) ==
    [agent |-> [a EXCEPT !.pc = "invoke", !.tool_name = tool_name],
     history |-> Append(history,
                        Content("model", "function_call", tool_name, 0, 0))]

\* lines 166 and 171: dict(args) with args None raises TypeError, outside
\* every try: process_prompt ends with the exception, nothing was appended
ArgsRaise(a, history) ==
    [agent |-> [a EXCEPT !.pc = "raised", !.raised = "TypeError"],
     history |-> history]

\* lines 144-200: what one generation call leads to
AfterGenerate(a, history, r) ==
    CASE r.kind = "api_error" ->
            [agent |-> Return(a, "api_error"), history |-> history]
      [] r.kind = "no_candidates" ->
            [agent |-> Return(a, "no_candidates"), history |-> history]
      [] r.kind = "text" -> TextResponse(a, history, r.has_content)
      [] r.kind = "function_call" /\ r.args_none -> ArgsRaise(a, history)
      [] OTHER -> FunctionCallResponse(a, history, r.tool_name)

\* line 130: for iteration in range(MAX_TOOL_ITERATIONS)
LoopContinues(iteration) == iteration < MAX_TOOL_ITERATIONS

\* lines 130-200
GenerateContent ==
    /\ agent.pc = "generate"
    /\ LoopContinues(agent.iteration)
    /\ \E r \in GenerateOutcomes(agent.iteration) :
         \E x \in {AfterGenerate(
                      [agent EXCEPT !.generate_calls = @ + 1],
                      conversation_history, r)} :
            /\ agent' = x.agent
            /\ conversation_history' = x.history
    /\ ToolsUnchanged

\* line 204 and lines 57-86: _invoke_tool dispatches on the name of the
\* tool.  The listing is made, and an unknown name answered, in this step;
\* the view and the save tool start on the arguments of the call, and
\* their own steps follow.
InvokeTool ==
    /\ agent.pc = "invoke"
    /\ agent' = [agent EXCEPT !.pc = "tool", !.tool_invocations = @ + 1]
    /\ IF agent.tool_name = FILE_DIRECTORY_TOOL_NAME THEN
            \E d \in AgentDirectories :
                /\ result' = ListingResult(
                       list_directory_contents_impl(d.dir_state, d.directory))
                /\ engine_log' =
                       engine_log \o ListingProbes(d.dir_state, d.directory)
                /\ pc' = "done"
                /\ UNCHANGED req
       ELSE IF agent.tool_name = VIEW_TOOL_NAME THEN
            /\ req' \in AgentViewRequests(agent)
            /\ pc' = "start"
            /\ UNCHANGED <<result, engine_log>>
       ELSE IF agent.tool_name = SAVE_VIDEO_SEGMENT_TOOL_NAME THEN
            /\ req' \in AgentSaveRequests(agent)
            /\ pc' = "start"
            /\ UNCHANGED <<result, engine_log>>
       ELSE /\ result' = UnknownToolResult
            /\ pc' = "done"
            /\ UNCHANGED <<req, engine_log>>
    /\ UNCHANGED <<conversation_history, raised, call, ret, start_time_sec,
                   end_time_sec, effective_end, video_metadata, out_name,
                   call_log, temp_files, clips, previous>>

\* lines 73-75, 90 and 206-210: _invoke_tool returns the status and the
\* media of the tool's result, process_prompt appends the JSON status as
\* the function response; the locals of the tool are gone
FunctionResponse ==
    /\ agent.pc = "tool"
    /\ pc = "done"
    /\ agent' = [agent EXCEPT !.pc = "media",
                              !.images = Len(result.images),
                              !.audios = Len(result.audios)]
    /\ conversation_history' =
          Append(conversation_history,
                 Content("function", "function_response", agent.tool_name,
                         0, 0))
    /\ req' = IdleRequest
    /\ pc' = "idle"
    /\ start_time_sec' = None
    /\ end_time_sec' = None
    /\ effective_end' = None
    /\ video_metadata' = None
    /\ out_name' = <<>>
    /\ result' = NoResult
    /\ raised' = ""
    /\ UNCHANGED <<call, ret, engine_log, call_log, temp_files, clips,
                   previous>>

\* mutant: the media message is sent only when there are images
HasMedia_ImagesOnly(images, audios) == images > 0

\* line 212: media_data.get("images") or media_data.get("audios")
HasMedia(images, audios) == images > 0 \/ audios > 0

\* lines 212-221: the media message, then the next iteration
AppendMediaMessage ==
    /\ agent.pc = "media"
    /\ conversation_history' =
          IF HasMedia(agent.images, agent.audios)
          THEN Append(conversation_history,
                      Content("user", "media", "", agent.images,
                              agent.audios))
          ELSE conversation_history
    /\ agent' = [agent EXCEPT !.pc = "generate", !.iteration = @ + 1]
    /\ ToolsUnchanged

\* lines 223-224
MaxIterationsReached ==
    /\ agent.pc = "generate"
    /\ ~LoopContinues(agent.iteration)
    /\ agent' = Return(agent, "max_iterations")
    /\ UNCHANGED conversation_history
    /\ ToolsUnchanged

\* lines 145-147: generate_content is called without a timeout; a call
\* that does not come back leaves process_prompt waiting in it
GenerateHangs ==
    /\ agent.pc = "generate"
    /\ LoopContinues(agent.iteration)
    /\ agent' = [agent EXCEPT !.pc = "blocked"]
    /\ UNCHANGED conversation_history
    /\ ToolsUnchanged

\* A call that waits for the engine has no timeout: ffmpeg.probe
\* (ffmpeg_utils.py line 74), process.communicate() (lines 190, 213, 235,
\* 315) and stream.run (save_video_segment_tool.py line 144).  A run that
\* does not end leaves the tool, _invoke_tool and process_prompt waiting
\* in it, with what the handler had done before the run was started.
Blocked(a) == [a EXCEPT !.pc = "blocked"]

\* file_system_tool.py line 45: the probe of the i-th video file of the
\* listing does not end; the files before it have been probed
ListingHangs ==
    /\ agent.pc = "invoke"
    /\ agent.tool_name = FILE_DIRECTORY_TOOL_NAME
    /\ \E d \in AgentDirectories :
       \E probes \in {ListingProbes(d.dir_state, d.directory)} :
       \E i \in DOMAIN probes :
            engine_log' = engine_log \o RunsUntilHang(probes, i)
    /\ agent' = Blocked([agent EXCEPT !.tool_invocations = @ + 1])
    /\ pc' = "blocked"
    /\ UNCHANGED <<conversation_history, raised, call, ret, req,
                   start_time_sec, end_time_sec, effective_end,
                   video_metadata, out_name, result, call_log, temp_files,
                   clips, previous>>

\* view_tool.py line 102: the probe of the source does not end; the result
\* dict has been made and the times parsed
ViewProbeHangs ==
    /\ agent.pc = "tool"
    /\ pc = "start"
    /\ req.op = "view"
    /\ ViewRaises(req) = ""
    /\ \E v \in {ViewValidation(req)} :
       \E i \in DOMAIN v.log :
            /\ engine_log' = engine_log \o RunsUntilHang(v.log, i)
            /\ start_time_sec' = v.start
            /\ end_time_sec' = v.end
    /\ result' = NewResult(result)
    /\ agent' = Blocked(agent)
    /\ pc' = "blocked"
    /\ UNCHANGED <<conversation_history, raised, call, ret, req,
                   effective_end, video_metadata, out_name, call_log,
                   temp_files, clips, previous>>

\* the temporary directory exists from line 162 on: during the decoder's
\* run, not yet during the probe of line 144
FramesTempDuring(c) ==
    IF c.engine = "decode_frames" THEN {"frames_dir"} ELSE {}

\* view_tool.py line 125, ffmpeg_utils.py lines 144 and 190, 213, 235:
\* extract_frames' probe, or the decoder, does not end
ExtractFramesHangs ==
    /\ agent.pc = "tool"
    /\ pc = "frames"
    /\ \E range \in {FrameRange(start_time_sec[1], effective_end[1])} :
       \E env \in FrameEnvsOf(agent) :
        LET n == NumFramesToExtract(req.num_frames)
            q == CurrentQualityLevel(req.quality)
            x == ExtractFramesOf(range, req.file_name, start_time_sec[1],
                                 effective_end[1], n, q, env)
        IN  \E i \in DOMAIN x.log :
              /\ engine_log' = engine_log \o RunsUntilHang(x.log, i)
              /\ temp_files' = temp_files \cup FramesTempDuring(x.log[i])
              /\ call_log' = Append(call_log,
                     [fn |-> "extract_frames", start |-> start_time_sec[1],
                      end |-> effective_end[1], num_frames |-> n,
                      quality |-> q])
    /\ agent' = Blocked(agent)
    /\ pc' = "blocked"
    /\ UNCHANGED <<conversation_history, raised, call, ret, req,
                   start_time_sec, end_time_sec, effective_end,
                   video_metadata, out_name, result, clips, previous>>

\* the temporary wav file exists from line 299 (mkstemp) on: during the
\* decoder's run, not yet during the probe of line 294
AudioTempDuring(c) ==
    IF c.engine = "decode_audio" THEN {"audio_wav"} ELSE {}

\* view_tool.py line 142, ffmpeg_utils.py lines 294 and 315:
\* extract_audio_segment's probe, or the decoder, does not end
ExtractAudioHangs ==
    /\ agent.pc = "tool"
    /\ pc = "audio"
    /\ AudioRequested(FloatSub(effective_end[1], start_time_sec[1]),
                      video_metadata[1].has_audio)
    /\ \E rejected \in {AudioRangeRejected(start_time_sec[1],
                                            effective_end[1])} :
       \E env \in AudioEnvsOf(agent) :
        LET a == ExtractAudioOf(rejected, req.file_name, start_time_sec[1],
                                effective_end[1], env)
        IN  \E i \in DOMAIN a.log :
              /\ engine_log' = engine_log \o RunsUntilHang(a.log, i)
              /\ temp_files' = temp_files \cup AudioTempDuring(a.log[i])
              /\ call_log' = Append(call_log,
                     [fn |-> "extract_audio_segment",
                      start |-> start_time_sec[1],
                      end |-> effective_end[1], num_frames |-> 0,
                      quality |-> ""])
    /\ agent' = Blocked(agent)
    /\ pc' = "blocked"
    /\ UNCHANGED <<conversation_history, raised, call, ret, req,
                   start_time_sec, end_time_sec, effective_end,
                   video_metadata, out_name, result, clips, previous>>

\* save_video_segment_tool.py line 104: the probe of the source does not
\* end; the directory has been made, the name normalised, the times parsed
SaveProbeHangs ==
    /\ agent.pc = "tool"
    /\ pc = "start"
    /\ req.op = "save"
    /\ \E mkdir_ok \in MkdirOutcomesOf(agent) :
        /\ SaveRaises(req, mkdir_ok) = ""
        /\ \E v \in {SaveValidation(req, mkdir_ok)} :
           \E i \in DOMAIN v.log :
                /\ engine_log' = engine_log \o RunsUntilHang(v.log, i)
                /\ start_time_sec' = v.start
                /\ end_time_sec' = parse_time_to_seconds(req.end_time)
                /\ out_name' = v.name
    /\ agent' = Blocked(agent)
    /\ pc' = "blocked"
    /\ UNCHANGED <<conversation_history, raised, call, ret, req,
                   effective_end, video_metadata, result, call_log,
                   temp_files, clips, previous>>

\* save_video_segment_tool.py line 144: the encoder does not end; it may
\* have written a part of the output file
EncodeHangs ==
    /\ agent.pc = "tool"
    /\ pc = "encode"
    /\ engine_log' = Append(engine_log,
           Running(EncodeCommand(req, start_time_sec, end_time_sec,
                                 out_name, "running")))
    /\ \E partial \in BOOLEAN :
         clips' = IF partial
                  THEN [clips EXCEPT ![OutputFile(out_name)] = "partial"]
                  ELSE clips
    /\ agent' = Blocked(agent)
    /\ pc' = "blocked"
    /\ UNCHANGED <<conversation_history, raised, call, ret, req,
                   start_time_sec, end_time_sec, effective_end,
                   video_metadata, out_name, result, call_log, temp_files,
                   previous>>

\* an engine run, started by the tool that process_prompt called, that
\* does not end
EngineHangs ==
    \/ ListingHangs
    \/ ViewProbeHangs
    \/ ExtractFramesHangs
    \/ ExtractAudioHangs
    \/ SaveProbeHangs
    \/ EncodeHangs

AgentNext ==
    \/ ReceivePrompt
    \/ GenerateContent
    \/ GenerateHangs
    \/ EngineHangs
    \/ InvokeTool
    \/ ViewValidate
    \/ ViewExtractFrames
    \/ ViewExtractAudio
    \/ ViewFinalStatus
    \/ SaveValidate
    \/ SaveEncode
    \/ InvokeToolExcept
    \/ FunctionResponse
    \/ AppendMediaMessage
    \/ MaxIterationsReached

AgentSpec == AgentInit /\ [][AgentNext]_vars

\* the steps of process_prompt itself
AgentStep ==
    \/ ReceivePrompt
    \/ GenerateContent
    \/ InvokeTool
    \/ FunctionResponse
    \/ AppendMediaMessage
    \/ MaxIterationsReached

\* the positions a step of a tool's handler leaves
RunningPositions == {"start", "frames", "audio", "status", "encode", "raised"}

\* a step of the tool that is running: its handler moves on
ToolAdvances ==
    /\ pc \in RunningPositions
    /\ pc' \in (RunningPositions \cup {"done"}) \ {pc}

\* process_prompt runs in one thread that nothing suspends: at a position
\* of its own code, or of the tool it called, the next statement is
\* executed.  A call that does not come back is a step of its own
\* (GenerateHangs, EngineHangs), after which no statement is executed; the
\* step that completes a call is not taken in a behaviour where it hangs.
AgentLiveSpec == AgentSpec /\ WF_vars(AgentStep) /\ WF_pc(ToolAdvances)

(***************************************************************************)
(* Vocabulary of the properties.                                           *)
(***************************************************************************)
\* what the parser returns for each time a request can carry
ParsedTimes ==
    {<<t, view_tool_parse_time_to_seconds(t).value>> : t \in TimeArguments}

ParsedTime(t) == (CHOOSE p \in ParsedTimes : p[1] = t)[2]

ParsedStart == ParsedTime(req.start_time)

ParsedEnd == ParsedTime(req.end_time)

BothParsed == ~IsNone(ParsedStart) /\ ~IsNone(ParsedEnd)

\* the ranges a request can name on a source that can be probed, and the
\* length of such a range once its end is clamped to the duration
ProbedRanges ==
    {x \in TimeArguments \X TimeArguments \X FileNames :
        /\ ~IsNone(ParsedTime(x[1]))
        /\ ~IsNone(ParsedTime(x[2]))
        /\ ProbeSucceeds(x[3])}

ClampedLength(x) ==
    FloatSub(Min(ParsedTime(x[2])[1], ProbedDuration(x[3])),
             ParsedTime(x[1])[1])

\* the ranges whose clamped length is at most 1 ms, and at most 0
RangesUpToMillisecond ==
    {x : x \in {y \in ProbedRanges :
                    FloatLessEq(ClampedLength(y), FloatOfMillis(1))}}

RangesUpToZero ==
    {x : x \in {y \in ProbedRanges : FloatLessEq(ClampedLength(y), FloatZero)}}

RequestRange == <<req.start_time, req.end_time, req.file_name>>

\* the request reaches the ordering test: source present, times parsed, >= 0
ReachesOrderTest ==
    /\ PathExists(req.file_name)
    /\ BothParsed
    /\ FloatLessEq(FloatZero, ParsedStart[1])
    /\ FloatLessEq(FloatZero, ParsedEnd[1])

Invoked(engine) == \E i \in DOMAIN engine_log : engine_log[i].engine = engine

InvokedWith(engine, outcome) ==
    \E i \in DOMAIN engine_log :
        engine_log[i].engine = engine /\ engine_log[i].outcome = outcome

Called(fn) == \E i \in DOMAIN call_log : call_log[i].fn = fn

\* no file of saved_clips has been written by this call
FilesUntouched == \A p \in OutputPaths : clips[p] \in {"absent", "old"}

SaveValidationErrors ==
    {"Source video file not found", "Invalid time format",
     "Start and end times must be non-negative.",
     "End time must be after start time",
     "Start time is at or after video duration",
     "Adjusted end time is not after start time after clamping to video duration"}

(***************************************************************************)
(* C1.  A request (view or save, naming its files by strs) whose parsed    *)
(* end is less than its parsed start makes no probe, decode or encode      *)
(* invocation at any point of the call, and the call returns an error.     *)
(***************************************************************************)
\* the file names of the request are strs
NamesAreStr == IsStr(req.file_name) /\ IsStr(req.output_file_name)

C1_EndBeforeStartNoEngine ==
    (/\ NamesAreStr
     /\ BothParsed
     /\ FloatLess(ParsedEnd[1], ParsedStart[1])) =>
        /\ engine_log = <<>>
        /\ pc \in {"start", "done"}
        /\ (pc = "done" => result.status = "error")

C1_Witness ==
    /\ req.op = "view"
    /\ pc = "done"
    /\ ReachesOrderTest
    /\ FloatLess(ParsedEnd[1], ParsedStart[1])
    /\ result.message = "End time cannot be before start time"

(***************************************************************************)
(* C2.  Once save_video_segment_impl has produced a validation error       *)
(* (source missing, unparsable or negative time, end not after start,      *)
(* start at or beyond the duration) the call has returned: the encoder was *)
(* not invoked and no file of saved_clips was created or modified.         *)
(***************************************************************************)
C2_ValidationErrorWritesNothing ==
    (req.op = "save" /\ result.message \in SaveValidationErrors) =>
        /\ pc = "done"
        /\ result.status = "error"
        /\ ~Invoked("encode")
        /\ FilesUntouched

C2_Witness ==
    /\ req.op = "save"
    /\ pc = "done"
    /\ req.file_name = DummyVideo
    /\ req.start_time = T05
    /\ req.end_time = T02
    /\ result.message = "End time must be after start time"
    /\ \A p \in OutputPaths : clips[p] = "old"

(***************************************************************************)
(* C3.  Whenever the encoder runs after a successful probe, the end of the *)
(* seek range it is handed is at most the probed duration.                 *)
(* The code hands the encoder the request's end_time string (line 131),    *)
(* not the clamped end_time_sec: the statement is violated.                *)
(***************************************************************************)
C3_EncoderEndWithinDuration ==
    \A i \in DOMAIN engine_log :
        (engine_log[i].engine = "encode" /\ ~IsNone(video_metadata)) =>
            FloatLessEq(parse_time_to_seconds(engine_log[i].to_str)[1],
                        video_metadata[1].duration_seconds)

(***************************************************************************)
(* C4.  A request (view or save) whose probe succeeded and whose parsed    *)
(* start is greater than or equal to the probed duration returns a         *)
(* start-beyond-duration error and performs no decode or encode.           *)
(* view_video_segment_impl tests start > duration (line 110): a start      *)
(* equal to the duration is accepted, and the statement is violated.       *)
(***************************************************************************)
C4_StartAtOrBeyondDurationRejected ==
    (/\ pc = "done"
     /\ InvokedWith("probe", "ok")
     /\ engine_log[1].engine = "probe"
     /\ FloatLessEq(ProbedDuration(req.file_name), ParsedStart[1])) =>
        /\ result.status = "error"
        /\ result.message \in {"Start time is beyond the video duration",
                               "Start time is at or after video duration"}
        /\ ~Invoked("decode_frames")
        /\ ~Invoked("decode_audio")
        /\ ~Invoked("encode")

(***************************************************************************)
(* C5.  Vocabulary: a view request has passed validation when the handler  *)
(* holds an effective end; its expected range is [start, min(end, dur)].   *)
(***************************************************************************)
ViewValidated == req.op = "view" /\ ~IsNone(effective_end)

ExpectedEnd ==
    IF FloatLess(ParsedEnd[1], ProbedDuration(req.file_name))
    THEN ParsedEnd[1] ELSE ProbedDuration(req.file_name)

CallHasExpectedRange(c) == c.start = ParsedStart[1] /\ c.end = ExpectedEnd

\* extraction is over: the handler is at or past the final status
ExtractionOver == pc \in {"status", "done"}

(***************************************************************************)
(* C5 as stated.  For every view request that passes validation, frame     *)
(* extraction and audio extraction are both invoked, with the same range   *)
(* [start, min(end, duration)], and the call does not end in an error.     *)
(* Violated: a source without an audio track gets no audio extraction.     *)
(***************************************************************************)
C5_BothExtractionsInvoked ==
    (ViewValidated /\ ExtractionOver) =>
        /\ \E i \in DOMAIN call_log :
            call_log[i].fn = "extract_frames" /\ CallHasExpectedRange(call_log[i])
        /\ \E i \in DOMAIN call_log :
            /\ call_log[i].fn = "extract_audio_segment"
            /\ CallHasExpectedRange(call_log[i])
        /\ (pc = "done" => result.status # "error")

(***************************************************************************)
(* C5 as amended.  For every view request that passes validation, frame    *)
(* extraction is invoked with the range [start, min(end, duration)];       *)
(* audio extraction is invoked exactly when the source has an audio track, *)
(* and then with the same range; an end beyond the duration is clamped     *)
(* and the call never ends in an error.                                    *)
(***************************************************************************)
C5_SameClampedRange ==
    (ViewValidated /\ ExtractionOver) =>
        /\ \E i \in DOMAIN call_log :
            call_log[i].fn = "extract_frames" /\ CallHasExpectedRange(call_log[i])
        /\ Called("extract_audio_segment") <=> ProbedHasAudio(req.file_name)
        /\ \A i \in DOMAIN call_log : CallHasExpectedRange(call_log[i])
        /\ Len(call_log) <= 2
        /\ (pc = "done" => result.status \in {"success", "partial_success"})

C5_Witness ==
    /\ ViewValidated
    /\ pc = "done"
    /\ req.file_name = DummyVideo
    /\ req.start_time = T05
    /\ req.end_time = T15
    /\ Len(call_log) = 2
    /\ call_log[1].end = FloatOfInt(10)
    /\ call_log[2].end = FloatOfInt(10)
    /\ result.status = "success"

(***************************************************************************)
(* C6.  A request (naming its files by strs) whose parsed end equals its   *)
(* parsed start:                                                           *)
(*  - save_video_segment_impl rejects it with the ordering error, and the  *)
(*    source is never probed;                                              *)
(*  - view_video_segment_impl, when the start lies within the duration,    *)
(*    accepts it and treats it as a single instant: every frame decode     *)
(*    asks the engine for one frame, at most one frame is returned, no     *)
(*    audio is decoded, and the call does not end in an error.             *)
(***************************************************************************)
EqualTimes == ReachesOrderTest /\ ParsedEnd[1] = ParsedStart[1]

C6_EqualStartEnd ==
    /\ (req.op = "save" /\ NamesAreStr /\ EqualTimes) =>
        /\ ~Invoked("probe")
        /\ pc \in {"start", "done"}
        /\ (pc = "done" =>
                /\ result.status = "error"
                /\ result.message \in {"End time must be after start time",
                                       "Could not create output directory"})
    /\ (/\ req.op = "view"
        /\ EqualTimes
        /\ ProbeSucceeds(req.file_name)
        /\ FloatLessEq(ParsedStart[1], ProbedDuration(req.file_name))) =>
        /\ (pc # "start" => ViewValidated)
        /\ \A i \in DOMAIN engine_log :
            engine_log[i].engine = "decode_frames" =>
                /\ engine_log[i].vframes = Some(1)
                /\ engine_log[i].ss = ParsedStart
        /\ Len(result.images) <= 1
        /\ ~Invoked("decode_audio")
        /\ (pc = "done" => result.status \in {"success", "partial_success"})

C6_Witness ==
    /\ req.op = "view"
    /\ pc = "done"
    /\ req.file_name = DummyVideo
    /\ req.start_time = T02
    /\ req.end_time = T02
    /\ Invoked("decode_frames")
    /\ Len(result.images) = 1
    /\ result.status = "success"

(***************************************************************************)
(* C7.  Vocabulary: a save request that reaches the duration tests with an *)
(* end beyond the probed duration and a start at or beyond the clamped end *)
(* (which is the duration).                                                *)
(***************************************************************************)
SaveCollapsing ==
    /\ req.op = "save"
    /\ pc = "done"
    /\ engine_log # <<>>
    /\ engine_log[1].engine = "probe"
    /\ engine_log[1].outcome = "ok"
    /\ FloatLess(ProbedDuration(req.file_name), ParsedEnd[1])
    /\ FloatLessEq(ProbedDuration(req.file_name), ParsedStart[1])

(***************************************************************************)
(* C7 as stated.  Such a request fails with the range-collapsed error      *)
(* ('Adjusted end time ... after clamping to video duration') and the      *)
(* encoder is not invoked.                                                 *)
(* Violated: the start test of line 107 returns first, with another error. *)
(***************************************************************************)
C7_CollapsedRangeError ==
    SaveCollapsing =>
        /\ result.status = "error"
        /\ result.message =
             "Adjusted end time is not after start time after clamping to video duration"
        /\ ~Invoked("encode")

(***************************************************************************)
(* C7 as amended.  Such a request fails with the start-at-or-after-        *)
(* duration error and the encoder is not invoked; no request ever gets the *)
(* 'Adjusted end time ...' error.                                          *)
(***************************************************************************)
C7_CollapsedRangeIsStartError ==
    /\ SaveCollapsing =>
        /\ result.status = "error"
        /\ result.message = "Start time is at or after video duration"
        /\ ~Invoked("encode")
    /\ result.message #
         "Adjusted end time is not after start time after clamping to video duration"

C7_Witness ==
    /\ SaveCollapsing
    /\ req.file_name = DummyVideo
    /\ req.start_time = T10
    /\ req.end_time = T15
    /\ result.message = "Start time is at or after video duration"

(***************************************************************************)
(* C8.  When the decode engine fails (non-zero exit or invocation error)   *)
(* during frame sampling or audio slicing, view_video_segment_impl reports *)
(* an error outcome.                                                       *)
(* Violated: extract_frames and extract_audio_segment turn the failure     *)
(* into [] / None, and the status is success or partial_success exactly as *)
(* for a run that produced nothing.                                        *)
(***************************************************************************)
DecodeFailed ==
    \E i \in DOMAIN engine_log :
        /\ engine_log[i].engine \in {"decode_frames", "decode_audio"}
        /\ engine_log[i].outcome # "ok"

C8_DecodeFailureIsError ==
    (req.op = "view" /\ pc = "done" /\ DecodeFailed) => result.status = "error"

(***************************************************************************)
(* C9.  If the encode engine fails during save_video_segment_impl the      *)
(* result is an error that carries the engine's diagnostic text, whether   *)
(* or not a partial output file remains; status success is returned only   *)
(* for a run in which the engine exited with 0.                            *)
(***************************************************************************)
C9_EncodeFailureIsError ==
    (req.op = "save" /\ pc = "done") =>
        /\ \A i \in DOMAIN engine_log :
            (engine_log[i].engine = "encode" /\ engine_log[i].outcome # "ok") =>
                /\ result.status = "error"
                /\ engine_log[i].outcome = "fail" =>
                    /\ result.message = "FFmpeg error"
                    /\ engine_log[i].stderr # "" =>
                           result.detail = engine_log[i].stderr
        /\ result.status = "success" => InvokedWith("encode", "ok")

C9_Witness ==
    /\ req.op = "save"
    /\ pc = "done"
    /\ InvokedWith("encode", "fail")
    /\ clips[OutputFile(out_name)] = "partial"
    /\ result.status = "error"
    /\ result.detail = "Invalid data found when processing input"

(***************************************************************************)
(* C10.  No temporary frame directory or temporary audio file exists once  *)
(* extract_frames / extract_audio_segment have returned, whatever the exit *)
(* path.                                                                   *)
(* Violated: when os.remove of the temp wav file raises, the finally block *)
(* logs the exception and the file stays; when the removal of the temp dir *)
(* raises on leaving the with block, the exception is caught, the frames   *)
(* are dropped and what could not be removed stays.                        *)
(***************************************************************************)
C10_NoTempLeft == temp_files = {}

\* a view call has returned its frames and its audio clip, and the
\* temporary wav file, which os.remove could not delete, is still there
C10_TempFileLeft ==
    /\ pc = "done"
    /\ result.status = "success"
    /\ Len(result.images) = 2
    /\ Len(result.audios) = 1
    /\ temp_files = {"audio_wav"}

(***************************************************************************)
(* Vocabulary of C11-C15: the frame step of a validated view request.      *)
(***************************************************************************)
FramesStepDone == ViewValidated /\ pc \in {"audio", "status", "done"}

AudioStepDone == ViewValidated /\ pc \in {"status", "done"}

\* the count the request stands for: its own, or 3 when omitted or <= 0
EffectiveCount ==
    IF req.num_frames = None THEN 3
    ELSE IF req.num_frames[1] <= 0 THEN 3
    ELSE req.num_frames[1]

FrameRuns == SelectSeq(engine_log, LAMBDA c : c.engine = "decode_frames")

AudioRuns == SelectSeq(engine_log, LAMBDA c : c.engine = "decode_audio")

\* the frames returned are files 0 .. k-1, in that order
IsIndexPrefix(images) == \A i \in DOMAIN images : images[i] = i - 1

SingleInstant ==
    \/ req.num_frames = Some(1)
    \/ RequestRange \in RangesUpToMillisecond

C12_SingleFrameAtStart ==
    (FramesStepDone /\ SingleInstant) =>
        /\ Len(FrameRuns) = 1
        /\ FrameRuns[1].vframes = Some(1)
        /\ FrameRuns[1].fps = <<>>
        /\ FrameRuns[1].ss = ParsedStart
        /\ Len(result.images) <= 1

\* three frames asked of the 1 ms range 2.000 s .. 2.001 s
C12_Witness ==
    /\ FramesStepDone
    /\ req.num_frames = Some(3)
    /\ req.start_time = T02
    /\ req.end_time = T02001
    /\ Len(FrameRuns) = 1
    /\ FrameRuns[1].vframes = Some(1)
    /\ FrameRuns[1].ss = Some(FloatOfInt(2))
    /\ FrameRuns[1].produced = {1}
    /\ result.images = <<1>>

(***************************************************************************)
(* C13.  The scale filter chosen for a source of width w and a quality     *)
(* tier with target width t (low 640, medium 1280, high 1920, any other    *)
(* tier as low): a filter is applied exactly when w is known (w > 0) and   *)
(* w > t, and then it scales to exactly t; otherwise there is no filter;   *)
(* so the width of a frame never exceeds the width of the source.          *)
(***************************************************************************)
TierWidth(q) ==
    IF q = "medium" THEN 1280 ELSE IF q = "high" THEN 1920 ELSE 640

\* the width of the frames the engine writes
FrameWidth(w, scale) == IF scale = None THEN w ELSE scale[1]

C13_DownscaleOnly ==
    (ret.done /\ call.fn = "scale_filter") =>
        /\ ret.scale # None <=>
            (call.original_width > 0
                /\ call.original_width > TierWidth(call.quality_level))
        /\ ret.scale # None => ret.scale = Some(TierWidth(call.quality_level))
        /\ FrameWidth(call.original_width, ret.scale) <= call.original_width

\* a 1921-wide source at tier high is scaled to 1920
C13_Witness ==
    /\ ret.done
    /\ call.fn = "scale_filter"
    /\ call.original_width = 1921
    /\ call.quality_level = "high"
    /\ ret.scale = Some(1920)

(***************************************************************************)
(* C14.  For a validated view request the audio payload never holds more   *)
(* than one clip; and when the source has no audio track, or the clamped   *)
(* range has duration <= 0, then once the audio step is over the audio     *)
(* decoder has not been run, the payload holds no clip, and the call does  *)
(* not end in an error.                                                    *)
(***************************************************************************)
NoAudioExpected ==
    \/ ~ProbedHasAudio(req.file_name)
    \/ RequestRange \in RangesUpToZero

C14_NoAudioIsNotAnError ==
    ViewValidated =>
        /\ Len(result.audios) <= 1
        /\ (AudioStepDone /\ NoAudioExpected) =>
            /\ AudioRuns = <<>>
            /\ result.audios = <<>>
            /\ (pc = "done" => result.status \in {"success", "partial_success"})

\* a single instant of a source with an audio track: extract_audio_segment
\* is called and returns None without running the decoder
C14_Witness ==
    /\ ViewValidated
    /\ pc = "done"
    /\ req.file_name = DummyVideo
    /\ req.start_time = T05
    /\ req.end_time = T05
    /\ Called("extract_audio_segment")
    /\ AudioRuns = <<>>
    /\ result.audios = <<>>
    /\ Len(result.images) = 1
    /\ result.status = "success"

(***************************************************************************)
(* C15.  A validated view request that has returned has status success     *)
(* exactly when its payload holds at least one frame or one audio clip,    *)
(* and status partial_success exactly when it holds neither; it never has  *)
(* status error, however few frames came back.                             *)
(***************************************************************************)
MediaExtracted == Len(result.images) > 0 \/ Len(result.audios) > 0

C15_StatusFollowsPayload ==
    (ViewValidated /\ pc = "done") =>
        /\ result.status = "success" <=> MediaExtracted
        /\ result.status = "partial_success" <=> ~MediaExtracted
        /\ result.status # "error"

\* no frame came back of the three asked for, but the audio clip did
C15_Witness ==
    /\ ViewValidated
    /\ pc = "done"
    /\ EffectiveCount = 3
    /\ result.images = <<>>
    /\ Len(result.audios) = 1
    /\ result.status = "success"

(***************************************************************************)
(* C16.  No exception leaves view_video_segment_impl or                    *)
(* save_video_segment_impl: whatever the arguments, among them times and   *)
(* file names that are not strings, the call returns a result.             *)
(* Violated: a time that is not a str makes the parser raise               *)
(* AttributeError, a file name that is not a str makes the path join raise *)
(* TypeError, and neither function catches it; only the agent's            *)
(* _invoke_tool does.                                                      *)
(***************************************************************************)
C16_NoExceptionEscapes == raised = ""

(***************************************************************************)
(* C17.  Every file save_video_segment_impl writes lies inside the         *)
(* directory saved_clips, whatever output file name the caller supplied,   *)
(* and a successful call returns the resolved absolute path of the file it *)
(* wrote.                                                                  *)
(* Violated: the name is joined to the directory as it is (lines 74, 84),  *)
(* so '../escape.mp4' or an absolute name is written outside saved_clips.  *)
(***************************************************************************)
SavedClipsDir == Resolve(PathOf(SAVED_CLIPS_SUBDIR))

IsInside(p, dir) ==
    Len(p) > Len(dir) /\ SubSeq(p, 1, Len(dir)) = dir

Written(p) == clips[p] \in {"new", "partial"}

C17_WritesInsideSavedClips ==
    /\ \A p \in OutputPaths : Written(p) => IsInside(p, SavedClipsDir)
    /\ (req.op = "save" /\ pc = "done" /\ result.status = "success") =>
        /\ Written(OutputFile(out_name))
        /\ result.output_path = Resolve(OutputFullPath(out_name))

(***************************************************************************)
(* C18.  The destination name computed from an output file name ends,      *)
(* case-insensitively, in one of .mp4 .mov .avi .mkv; a name that already  *)
(* ends so is kept unchanged; any other name gets ".mp4" appended; and     *)
(* normalising the result again changes nothing.                           *)
(***************************************************************************)
\* the last four characters, lowered, are a video extension
HasVideoExtension(n) ==
    /\ Len(n) >= 4
    /\ LowerStr(SubSeq(n, Len(n) - 3, Len(n))) \in
           {<<".", "m", "p", "4">>, <<".", "m", "o", "v">>,
            <<".", "a", "v", "i">>, <<".", "m", "k", "v">>}

C18_NameEndsInVideoExtension ==
    (ret.done /\ call.fn = "normalise_output_name") =>
        /\ HasVideoExtension(ret.name)
        /\ HasVideoExtension(call.name) => ret.name = call.name
        /\ ~HasVideoExtension(call.name) =>
               ret.name = call.name \o <<".", "m", "p", "4">>
        /\ NormaliseOutputName(ret.name) = ret.name

\* a mixed-case extension is recognised and the name kept as it is
C18_Witness ==
    /\ ret.done
    /\ call.fn = "normalise_output_name"
    /\ call.name = <<"a", ".", "M", "p", "4">>
    /\ ret.name = <<"a", ".", "M", "p", "4">>

(***************************************************************************)
(* C19.  parse_time_to_seconds returns no value for every string that is   *)
(* empty, has more than three colon-separated segments, or has a           *)
(* component that is not numeric (here: holds a character other than a     *)
(* digit, a sign, a blank or an underscore).                               *)
(* Violated: only the first two '.'-separated pieces of the seconds field  *)
(* are read (lines 24-26), so "1.2.a" parses to 1.002 s.                   *)
(***************************************************************************)
NumericCharacters == Digits \cup IntWhitespace \cup {"-", "+", "_"}

HasNonNumericComponent(s) ==
    \E i \in DOMAIN s : s[i] \notin NumericCharacters \cup {":", "."}

Malformed(s) ==
    \/ s = <<>>
    \/ Len(Split(s, ":")) > 3
    \/ HasNonNumericComponent(s)

C19_MalformedFails ==
    (ret.done /\ call.fn = "parse_time_to_seconds"
        /\ Malformed(call.time_str)) => ret.seconds = None

(***************************************************************************)
(* C20.  Every value parse_time_to_seconds returns is >= 0.                *)
(* Violated: int() accepts a sign, so "-5" parses to -5 s and "0:-1" to    *)
(* -1 s; the sign is only looked at by the callers (view_tool.py:90).      *)
(***************************************************************************)
C20_ParsedNonNegative ==
    (ret.done /\ call.fn = "parse_time_to_seconds" /\ ret.seconds # None) =>
        FloatLessEq(FloatZero, ret.seconds[1])

(***************************************************************************)
(* C21.  parse_time_to_seconds returns a value only for strings of the     *)
(* shapes SS, MM:SS, H:MM:SS whose components are digits only, the seconds *)
(* field being digits with at most one '.' followed by digits: a second    *)
(* '.', an empty or non-digit fraction, a sign or a blank around a         *)
(* component makes it fail.                                                *)
(* Violated: int() strips blanks and accepts a sign, and pieces after the  *)
(* second '.' are not read: " 1", "-1" and "1.1." all parse.               *)
(***************************************************************************)
AllDigits(x) == Len(x) > 0 /\ \A i \in DOMAIN x : x[i] \in Digits

StrictSecondsPieces(p) ==
    Len(p) \in {1, 2} /\ \A i \in DOMAIN p : AllDigits(p[i])

StrictParts(parts) ==
    /\ Len(parts) \in 1..3
    /\ \A i \in 1..(Len(parts) - 1) : AllDigits(parts[i])
    /\ StrictSecondsPieces(Split(parts[Len(parts)], "."))

StrictShape(s) == StrictParts(Split(s, ":"))

C21_OnlyDigitComponents ==
    (ret.done /\ call.fn = "parse_time_to_seconds" /\ ret.seconds # None) =>
        StrictShape(call.time_str)

(***************************************************************************)
(* C22.  Two strings of the accepted shapes (SS, MM:SS, H:MM:SS, optional  *)
(* fraction) with equal h*3600 + m*60 + s and equal millisecond field      *)
(* parse to the same value, whatever their shapes.                         *)
(***************************************************************************)
\* the digit-only strings of the three shapes among the parser's inputs
StrictInputs == {s \in ParserInputs : StrictShape(s)}

FieldNumber(x) == DigitsValue(x, 0)

\* h*3600 + m*60 + s of the components, sp the pieces of the seconds field
WholeSecondsOf(parts, sp) ==
    CASE Len(parts) = 3 ->
            FieldNumber(parts[1]) * 3600 + FieldNumber(parts[2]) * 60
                + FieldNumber(sp[1])
      [] Len(parts) = 2 -> FieldNumber(parts[1]) * 60 + FieldNumber(sp[1])
      [] OTHER -> FieldNumber(sp[1])

MillisecondFieldOf(sp) == IF Len(sp) > 1 THEN FieldNumber(sp[2]) ELSE 0

InstantOfParts(parts, sp) ==
    <<WholeSecondsOf(parts, sp), MillisecondFieldOf(sp)>>

InstantOfSplit(parts) ==
    InstantOfParts(parts, Split(parts[Len(parts)], "."))

\* the instant a strict string denotes, and what the parser returns for it
InstantOf == [t \in StrictInputs |-> InstantOfSplit(Split(t, ":"))]

ParsedStrict == [t \in StrictInputs |-> parse_time_to_seconds(t)]

Shape(t) == Len(Split(t, ":"))

C22_SameInstantSameValue ==
    (ret.done /\ call.fn = "parse_time_to_seconds"
        /\ call.time_str \in StrictInputs) =>
        \A t \in StrictInputs :
            InstantOf[t] = InstantOf[call.time_str] =>
                ParsedStrict[t] = ret.seconds

\* "1:30.25" was parsed; "90.25" denotes the same instant in another shape
C22_Witness ==
    /\ ret.done
    /\ call.fn = "parse_time_to_seconds"
    /\ call.time_str = <<"1", ":", "3", "0", ".", "2", "5">>
    /\ ret.seconds = Some(FloatAdd(FloatOfInt(90), FloatTrueDiv(25, 1000)))
    /\ \E t \in StrictInputs :
          /\ Shape(t) # Shape(call.time_str)
          /\ InstantOf[t] = InstantOf[call.time_str]

(***************************************************************************)
(* C23.  The listing of a readable directory has exactly one entry for     *)
(* each regular file whose extension, lowered, is a video extension, in    *)
(* sorted name order; a file whose probe fails is listed with the          *)
(* metadata-unavailable marker and the listing is neither aborted nor      *)
(* shortened; other files and sub-directories never appear.                *)
(***************************************************************************)
DotPositions(n) == {i \in DOMAIN n : n[i] = "."}

LastDot(n) == CHOOSE i \in DotPositions(n) : \A j \in DotPositions(n) : j <= i

\* the extension of a name: from its last '.', lowered; none without a '.'
ExtensionOf(n) ==
    IF DotPositions(n) = {} THEN <<>>
    ELSE LowerStr(SubSeq(n, LastDot(n), Len(n)))

ExpectedNames(d) ==
    {n \in EntryNames :
        d[n] \in {"file", "unprobeable"} /\ ExtensionOf(n) \in VIDEO_EXTENSIONS}

ListedNames == {ret.entries[i].name : i \in DOMAIN ret.entries}

ListingReturned ==
    /\ ret.done
    /\ call.fn = "list_directory_contents_impl"
    /\ call.dir_state = "ok"

C23_ListingIsTheVideoFiles ==
    ListingReturned =>
        /\ ret.status \in {"listing", "no_video_files"}
        /\ ListedNames = ExpectedNames(call.directory)
        /\ Len(ret.entries) = Cardinality(ExpectedNames(call.directory))
        /\ \A i, j \in DOMAIN ret.entries :
              i < j => StrLess(ret.entries[i].name, ret.entries[j].name)
        /\ \A i \in DOMAIN ret.entries :
              ret.entries[i].info = "unavailable" <=>
                  call.directory[ret.entries[i].name] = "unprobeable"

\* an upper-case video file, a video file the probe fails on and a
\* sub-directory named like a video: two entries, the failed one marked
C23_Witness ==
    /\ ListingReturned
    /\ call.directory[<<"A", ".", "M", "O", "V">>] = "file"
    /\ call.directory[<<"b", ".", "m", "p", "4">>] = "unprobeable"
    /\ call.directory[<<"c", ".", "w", "e", "b", "m">>] = "dir"
    /\ ret.entries =
          <<[name |-> <<"A", ".", "M", "O", "V">>, info |-> "metadata"],
            [name |-> <<"b", ".", "m", "p", "4">>, info |-> "unavailable"]>>

(***************************************************************************)
(* C24.  Whenever a view call is repeated with the same arguments and      *)
(* every command line that was run before ends as it did then (exit        *)
(* status, diagnostics, files written, and whether they could be read back *)
(* and the temp dir removed), the later call returns the status, the error *)
(* and as many frames and audio clips as the earlier one, whether or not   *)
(* the earlier call has left its temporary audio file behind.              *)
(***************************************************************************)
\* two engine runs that ended alike
SameEnding(a, b) ==
    /\ a.outcome = b.outcome
    /\ a.stderr = b.stderr
    /\ a.produced = b.produced
    /\ a.read_failed = b.read_failed
    /\ a.engine = "decode_frames" => a.remove_failed = b.remove_failed

\* in the calls made so far a command line has always ended alike
EngineDeterministic ==
    \A i \in DOMAIN engine_log : \A j \in DOMAIN engine_log :
        SameCommand(engine_log[i], engine_log[j]) =>
            SameEnding(engine_log[i], engine_log[j])

IsPrefixOf(a, b) == Len(a) <= Len(b) /\ SubSeq(b, 1, Len(a)) = a

LastContent == conversation_history[Len(conversation_history)]

\* the step that detects a function call appends the call's content
FunctionCallAppended ==
    agent'.pc = "invoke" =>
        conversation_history' =
            Append(conversation_history,
                   [role |-> "model", kind |-> "function_call",
                    name |-> agent'.tool_name, images |-> 0, audios |-> 0])

\* the steps of the tool append nothing
ToolAppendsNothing ==
    agent.pc \in {"invoke", "tool"} /\ agent'.pc = "tool" =>
        conversation_history' = conversation_history

\* the step that takes the tool's result appends the response, right after
\* the call
FunctionResponseAppended ==
    agent.pc = "tool" /\ agent'.pc = "media" =>
        /\ LastContent.kind = "function_call"
        /\ LastContent.name = agent.tool_name
        /\ conversation_history' =
              Append(conversation_history,
                     [role |-> "function", kind |-> "function_response",
                      name |-> LastContent.name, images |-> 0, audios |-> 0])

\* the step after the response appends the media message, or nothing
MediaMessageAppended ==
    agent.pc = "media" =>
        /\ LastContent.kind = "function_response"
        /\ IF agent.images + agent.audios >= 1
           THEN /\ Len(conversation_history') = Len(conversation_history) + 1
                /\ conversation_history'[Len(conversation_history')].role = "user"
                /\ conversation_history'[Len(conversation_history')].kind = "media"
           ELSE conversation_history' = conversation_history

\* the step that ends with the TypeError appends nothing and invokes nothing
RaiseAppendsNothing ==
    agent'.pc = "raised" =>
        /\ conversation_history' = conversation_history
        /\ agent'.tool_invocations = agent.tool_invocations

C25_ToolCallAppends ==
    [][/\ IsPrefixOf(conversation_history, conversation_history')
       /\ FunctionCallAppended
       /\ RaiseAppendsNothing
       /\ ToolAppendsNothing
       /\ FunctionResponseAppended
       /\ MediaMessageAppended]_vars

\* the history holds a call answered with audio only, hence followed by a
\* media message, and then a call whose response is followed by no media
C25_Witness ==
    /\ agent.pc = "generate"
    /\ agent.iteration = 2
    /\ \E i \in DOMAIN conversation_history :
          /\ i + 4 = Len(conversation_history)
          /\ conversation_history[i].kind = "function_call"
          /\ conversation_history[i].name = VIEW_TOOL_NAME
          /\ conversation_history[i + 1].kind = "function_response"
          /\ conversation_history[i + 1].name = VIEW_TOOL_NAME
          /\ conversation_history[i + 2].kind = "media"
          /\ conversation_history[i + 2].images = 0
          /\ conversation_history[i + 2].audios = 1
          /\ conversation_history[i + 3].kind = "function_call"
          /\ conversation_history[i + 3].name = SAVE_VIDEO_SEGMENT_TOOL_NAME
          /\ conversation_history[i + 4].kind = "function_response"

(***************************************************************************)
(* C27.  process_prompt, once its loop is entered, returns: after at most  *)
(* MAX_TOOL_ITERATIONS generation calls and as many tool invocations, with *)
(* the model's text at the first response without a function call, an      *)
(* error message after an API failure or an empty candidate list, or the   *)
(* max-iterations message after the tenth function call in a row.          *)
(* Violated: a function call whose args are None (a call of the tool       *)
(* without parameters) makes dict(args) raise TypeError at line 166 or     *)
(* 171, outside every try: process_prompt ends with the exception and      *)
(* returns nothing.                                                        *)
(***************************************************************************)
WithinLimits ==
    /\ agent.generate_calls <= 10
    /\ agent.tool_invocations <= 10

ReturnsAsStated ==
    (agent.pc = "returned" /\ agent.prompt_is_str) =>
        /\ agent.returned \in
              {"text", "api_error", "no_candidates", "max_iterations"}
        /\ agent.returned = "max_iterations" <=>
              (agent.generate_calls = 10 /\ agent.tool_invocations = 10)
        /\ agent.returned # "max_iterations" =>
              agent.tool_invocations = agent.generate_calls - 1

\* process_prompt does not end with an exception
EndsByReturning == agent.pc # "raised"

C27_TerminatesWithinLimits ==
    /\ <>(agent.pc = "returned")
    /\ [](WithinLimits /\ ReturnsAsStated /\ EndsByReturning)

\* the model asked for a tool without arguments: process_prompt ended with
\* TypeError, nothing returned
C27_RaisedInstead ==
    /\ agent.pc = "raised"
    /\ agent.raised = "TypeError"
    /\ agent.returned = ""
    /\ agent.generate_calls >= 1

(***************************************************************************)
(* C26.  The three copies of the timecode parser end in the same way, with *)
(* the same value, the same failure return or the same exception, on every *)
(* string.                                                                 *)
(* Violated: on an int beyond the float range the arithmetic raises        *)
(* OverflowError, which ffmpeg_utils's copy turns into None (`except       *)
(* Exception`) and the other two copies, catching ValueError only, let     *)
(* escape.                                                                 *)
(***************************************************************************)
EndOfCall == [value |-> ret.seconds, raised |-> ret.raised]

C26_ParserCopiesAgree ==
    (ret.done /\ call.fn \in ParserCopies) =>
        /\ EndOfCall = view_tool_parse_time_to_seconds(call.time_str)
        /\ EndOfCall = ffmpeg_utils_parse_time_to_seconds(call.time_str)
        /\ EndOfCall = save_tool_parse_time_to_seconds(call.time_str)

(***************************************************************************)
(* C28.  A failed metadata probe of an existing source ends the operation, *)
(* view or save alike, with an error: the engine is run for nothing but    *)
(* the probe.                                                              *)
(* Violated: save_video_segment_impl goes on to encode when the probe      *)
(* returns None (line 120), with times that were never compared with a     *)
(* duration.                                                               *)
(***************************************************************************)
ProbeFailedOnSource ==
    /\ req.op \in {"view", "save"}
    /\ PathExists(req.file_name)
    /\ \E i \in DOMAIN engine_log :
          engine_log[i].engine = "probe" /\ engine_log[i].outcome # "ok"

C28_FailedProbeEndsOperation ==
    ProbeFailedOnSource =>
        /\ \A i \in DOMAIN engine_log : engine_log[i].engine = "probe"
        /\ pc = "done" => result.status = "error"

(***************************************************************************)
(* C29.  When the frame decoder exits with a non-zero code, whichever      *)
(* branch of extract_frames ran it, the view call gets no frames: files    *)
(* written before the failure are not returned.                            *)
(* Violated: the multi-frame branch only logs the exit code (line 237) and *)
(* reads back frame_0000.png, frame_0001.png, ... all the same.            *)
(***************************************************************************)
C29_NoFramesAfterEngineFailure ==
    (FramesStepDone /\ \E i \in DOMAIN FrameRuns : FrameRuns[i].outcome = "fail")
        => result.images = <<>>

(***************************************************************************)
(* C30.  The fraction of a timecode is a decimal fraction of a second:     *)
(* a string with a fraction and the same string with a zero appended to    *)
(* the fraction ("1.5" and "1.50", "0:01.25" and "0:01.250") parse to the  *)
(* same value.                                                             *)
(* Violated: the digits after the '.' are read as a count of milliseconds, *)
(* ms = int(s_parts[1]), so "1.5" is 1.005 s and "1.50" is 1.050 s.        *)
(***************************************************************************)
HasFraction(s) ==
    StrictShape(s) /\ Len(Split(s, ".")) = 2

C30_TrailingZerosKeepValue ==
    (ret.done /\ call.fn = "parse_time_to_seconds"
        /\ call.time_str \in ParserInputs /\ HasFraction(call.time_str)) =>
        parse_time_to_seconds(Append(call.time_str, "0")) = ret.seconds

====
